---- MODULE Spec2Model ----
(***************************************************************************)
(* PriceSpy: the price aggregation / alert decision engine                 *)
(* (app/routers/prices.py, app/services/alerts.py, app/services/scraper.py,*)
(* scripts/run_scraper.py, app/database.py) and the HTML signal extraction *)
(* pipeline (app/routers/products.py).                                     *)
(*                                                                         *)
(* Prices are integers (a fixed-point reading of the floats of the code).  *)
(* Time is the wall clock in whole hours.                                  *)
(***************************************************************************)
EXTENDS Integers, Sequences, FiniteSets, TLC

VARIABLES
    settings,       \* config.Settings: which API keys are configured
    products,       \* table products: id -> row
    price_history,  \* table price_history: rows (product_id, retailer, price)
    alerts_sent,    \* table alerts_sent: rows in insertion order
    now,            \* wall clock, hours
    emails,         \* messages the delivery service accepted: (product_id, at)
    last_delivery,  \* per product, outcome of the latest send_price_alert call
    rq,             \* the running handlers: request slot -> frame
    html,           \* the fetched document handed to extract_product_data
    category,       \* the category argument of extract_product_data
    data,           \* the ScrapedProductData being filled
    xpc,            \* position of extract_product_data in its cascade
    price_string,      \* the argument of extract_price
    parsed,         \* what extract_price returned
    shopping_item,  \* one result of the search feed: its price and extracted_price
    quoted          \* the price search_google_shopping emits for it, None when it is dropped

evars == <<settings, products, price_history, alerts_sent, now, emails,
           last_delivery, rq>>

xvars == <<html, category, data, xpc>>

pvars == <<price_string, parsed, shopping_item, quoted>>

vars == <<evars, xvars, pvars>>

(***************************************************************************)
(* Python values.  A str is the sequence of its characters; a JSON value   *)
(* (what json.loads returns) is one of the variants below; a float is held *)
(* in thousandths.                                                         *)
(***************************************************************************)
Str(s) == [str |-> s]
Num(n) == [num |-> n]
List(l) == [list |-> l]
Dict(d) == [dict |-> d]
NoneV == [none |-> TRUE]

IsStr(v) == "str" \in DOMAIN v
IsNum(v) == "num" \in DOMAIN v
IsList(v) == "list" \in DOMAIN v
IsDict(v) == "dict" \in DOMAIN v

EmptyDict == Dict([k \in {} |-> NoneV])

\* bool(v): `if v:` / `if not v:`
Truthy(v) ==
    CASE IsStr(v) -> v.str # <<>>
      [] IsNum(v) -> v.num # 0
      [] IsList(v) -> v.list # <<>>
      [] IsDict(v) -> DOMAIN v.dict # {}
      [] OTHER -> FALSE

\* d.get(key, default) and `key in d`
Has(d, key) == key \in DOMAIN d.dict

Get(d, key, default) == IF Has(d, key) THEN d.dict[key] ELSE default

\* a or b
Or(a, b) == IF Truthy(a) THEN a ELSE b

(***************************************************************************)
(* Characters and str methods                                              *)
(***************************************************************************)
UpperCase == <<"A", "B", "C", "D", "E", "F", "G", "H", "I", "J", "K", "L", "M", "N", "O", "P", "Q", "R", "S", "T", "U", "V", "W", "X", "Y", "Z">>
LowerCase == <<"a", "b", "c", "d", "e", "f", "g", "h", "i", "j", "k", "l", "m", "n", "o", "p", "q", "r", "s", "t", "u", "v", "w", "x", "y", "z">>
DigitChars == <<"0", "1", "2", "3", "4", "5", "6", "7", "8", "9">>

Digits == {DigitChars[k] : k \in DOMAIN DigitChars}

Letters == {UpperCase[k] : k \in DOMAIN UpperCase} \cup {LowerCase[k] : k \in DOMAIN LowerCase}

IsAlpha(c) == c \in Letters
IsDigit(c) == c \in Digits
IsSpace(c) == c = " "
\* \w
IsWord(c) == IsAlpha(c) \/ IsDigit(c) \/ c = "_"

DigitValue(c) == (CHOOSE k \in DOMAIN DigitChars : DigitChars[k] = c) - 1

Lowered == [c \in Letters |-> LowerCase[CHOOSE k \in DOMAIN UpperCase : UpperCase[k] = c \/ LowerCase[k] = c]]
Uppered == [c \in Letters |-> UpperCase[CHOOSE k \in DOMAIN UpperCase : UpperCase[k] = c \/ LowerCase[k] = c]]

LowerChar(c) == IF c \in Letters THEN Lowered[c] ELSE c
UpperChar(c) == IF c \in Letters THEN Uppered[c] ELSE c

\* s.lower(), s.upper(), s.title()
lower(s) == [i \in DOMAIN s |-> LowerChar(s[i])]
upper(s) == [i \in DOMAIN s |-> UpperChar(s[i])]
title(s) ==
    [i \in DOMAIN s |->
        IF i = 1 \/ ~IsAlpha(s[IF i = 1 THEN 1 ELSE i - 1]) THEN UpperChar(s[i]) ELSE LowerChar(s[i])]

\* s[i:] and s[:i] with 0-based i
From(s, i) == SubSeq(s, i + 1, Len(s))
Upto(s, i) == SubSeq(s, 1, i)

\* s.startswith(p) at 1-based position i, and the same ignoring case
MatchAt(s, i, p) ==
    i >= 1 /\ i + Len(p) - 1 <= Len(s) /\ \A k \in DOMAIN p : s[i + k - 1] = p[k]

MatchAtI(s, i, p) ==
    i >= 1 /\ i + Len(p) - 1 <= Len(s) /\ \A k \in DOMAIN p : LowerChar(s[i + k - 1]) = LowerChar(p[k])

\* `needle in hay`
Contains(hay, needle) == \E i \in 1..(Len(hay) + 1) : MatchAt(hay, i, needle)

\* s.strip()
RECURSIVE lstrip(_)
lstrip(s) == IF s # <<>> /\ IsSpace(s[1]) THEN lstrip(Tail(s)) ELSE s

RECURSIVE rstrip(_)
rstrip(s) == IF s # <<>> /\ IsSpace(s[Len(s)]) THEN rstrip(Upto(s, Len(s) - 1)) ELSE s

strip(s) == rstrip(lstrip(s))

\* s.replace(',', '.')
replace(s, old, new) == [i \in DOMAIN s |-> IF s[i] = old THEN new ELSE s[i]]

\* ' '.join(parts) and ', '.join(parts)
RECURSIVE join(_, _)
join(sep, parts) ==
    IF parts = <<>> THEN <<>>
    ELSE IF Len(parts) = 1 THEN parts[1]
    ELSE parts[1] \o sep \o join(sep, Tail(parts))

\* position of the end of the run of characters satisfying a class that
\* starts at i (i - 1 when s[i] is not in the class)
RECURSIVE DigitRunEnd(_, _)
DigitRunEnd(s, i) == IF i <= Len(s) /\ IsDigit(s[i]) THEN DigitRunEnd(s, i + 1) ELSE i - 1

RECURSIVE SpaceRunEnd(_, _)
SpaceRunEnd(s, i) == IF i <= Len(s) /\ IsSpace(s[i]) THEN SpaceRunEnd(s, i + 1) ELSE i - 1

RECURSIVE SpaceRunStart(_, _)
SpaceRunStart(s, i) == IF i >= 1 /\ IsSpace(s[i]) THEN SpaceRunStart(s, i - 1) ELSE i + 1

(***************************************************************************)
(* float(...) and str(...) of numbers.  A number n stands for n / Scale.   *)
(***************************************************************************)
Scale == 1000
FractionDigits == 3

ValueError == [error |-> "ValueError"]
IsError(v) == "error" \in DOMAIN v

RECURSIVE DigitsValue(_)
DigitsValue(s) == IF s = <<>> THEN 0 ELSE DigitsValue(Upto(s, Len(s) - 1)) * 10 + DigitValue(s[Len(s)])

\* an unsigned decimal literal: digits, at most one point, at least one digit
IsDecimal(s) ==
    /\ \A i \in DOMAIN s : IsDigit(s[i]) \/ s[i] = "."
    /\ Cardinality({i \in DOMAIN s : s[i] = "."}) <= 1
    /\ \E i \in DOMAIN s : IsDigit(s[i])

\* the value of the literal; its fraction digits count as thousandths
DecimalValue(s) ==
    LET FractionValue(f) == DigitsValue(Upto(f \o <<"0", "0", "0">>, FractionDigits))
    IN  IF \E i \in DOMAIN s : s[i] = "."
        THEN LET p == CHOOSE i \in DOMAIN s : s[i] = "."
             IN  DigitsValue(Upto(s, p - 1)) * Scale + FractionValue(From(s, p))
        ELSE DigitsValue(s) * Scale

\* float(s) for a str s: surrounding blanks and a sign are accepted
float(s) ==
    LET t == strip(s)
        signed == t # <<>> /\ t[1] \in {"+", "-"}
        body == IF signed THEN Tail(t) ELSE t
    IN  IF ~IsDecimal(body) THEN ValueError
        ELSE IF signed /\ t[1] = "-" THEN Num(0 - DecimalValue(body))
        ELSE Num(DecimalValue(body))

RECURSIVE NatChars(_)
NatChars(n) == IF n < 10 THEN <<DigitChars[n + 1]>> ELSE NatChars(n \div 10) \o <<DigitChars[(n % 10) + 1]>>

RECURSIVE StripZeros(_)
StripZeros(s) == IF s # <<>> /\ s[Len(s)] = "0" THEN StripZeros(Upto(s, Len(s) - 1)) ELSE s

\* str(x) of a JSON value, as far as float() can tell the results apart:
\* a number prints as "19.99" or "20"; a list, a dict and None print as text
\* that is no number
str(v) ==
    LET NumChars(n) ==
            LET a == IF n < 0 THEN 0 - n ELSE n
                whole == NatChars(a \div Scale)
                f == a % Scale
                frac == StripZeros(<<DigitChars[(f \div 100) + 1], DigitChars[((f \div 10) % 10) + 1], DigitChars[(f % 10) + 1]>>)
            IN  (IF n < 0 THEN <<"-">> ELSE <<>>) \o whole \o (IF frac = <<>> THEN <<>> ELSE <<".">> \o frac)
    IN  CASE IsStr(v) -> v.str
          [] IsNum(v) -> NumChars(v.num)
          [] IsList(v) -> <<"[", "]">>
          [] IsDict(v) -> <<"{", "}">>
          [] OTHER -> <<"N", "o", "n", "e">>

(***************************************************************************)
(* The document.  extract_product_data receives the page as one string and *)
(* reads it only through the searches below, so the page is held as what   *)
(* those searches can see, in page order:                                  *)
(*   head    the meta tags and the title, by the key extract_meta_tags     *)
(*           files them under, each with its content                       *)
(*   scripts the bodies of the application/ld+json script elements: the    *)
(*           value json.loads returns, or, for a body it rejects, the      *)
(*           "key": "value" fragments the body still spells out            *)
(*   markup  attribute values the fallback patterns look for               *)
(*   text    the visible text of the body                                  *)
(* Strings hold no quote, no angle bracket and no line break; JSON keys    *)
(* are spelled as schema.org spells them; label patterns ("Model: ..",     *)
(* "128 GB") occur in the visible text only.                               *)
(***************************************************************************)
NoDocument == [head |-> EmptyDict.dict, scripts |-> <<>>, markup |-> EmptyDict.dict, text |-> <<>>]

Json(v) == [json |-> v]
Unparsable(fragments) == [bad |-> fragments]
IsParsable(script) == "json" \in DOMAIN script

\* the model ScrapedProductData(): every field None
Fields == {"name", "brand", "model", "color", "size", "storage", "material", "price", "search_query"}

ScrapedProductData == [f \in Fields |-> NoneV]

\* every dict key of the JSON-LD vocabulary, in the order a document spells them
KeyOrder == <<"@context", "@type", "name", "brand", "offers", "price", "lowPrice", "color",
              "model", "sku", "mpn", "material", "size", "description", "@graph">>

\* the "key": value pairs a JSON value spells out, in text order
RECURSIVE Pairs(_)
RECURSIVE PairsOfKeys(_, _)
RECURSIVE PairsOfItems(_)
Pairs(v) ==
    CASE IsDict(v) -> PairsOfKeys(v, 1)
      [] IsList(v) -> PairsOfItems(v.list)
      [] OTHER -> <<>>

PairsOfKeys(v, k) ==
    IF k > Len(KeyOrder) THEN <<>>
    ELSE IF Has(v, KeyOrder[k])
         THEN <<[key |-> KeyOrder[k], value |-> v.dict[KeyOrder[k]]]>> \o Pairs(v.dict[KeyOrder[k]]) \o PairsOfKeys(v, k + 1)
         ELSE PairsOfKeys(v, k + 1)

PairsOfItems(items) == IF items = <<>> THEN <<>> ELSE Pairs(items[1]) \o PairsOfItems(Tail(items))

ScriptPairs(script) == IF IsParsable(script) THEN Pairs(script.json) ELSE script.bad

RECURSIVE AllPairs(_)
AllPairs(scripts) == IF scripts = <<>> THEN <<>> ELSE ScriptPairs(scripts[1]) \o AllPairs(Tail(scripts))

\* every string the page spells out
RECURSIVE JsonStrings(_)
JsonStrings(v) ==
    CASE IsStr(v) -> {v.str}
      [] IsList(v) -> UNION {JsonStrings(v.list[i]) : i \in DOMAIN v.list}
      [] IsDict(v) -> UNION {JsonStrings(v.dict[k]) : k \in DOMAIN v.dict}
      [] OTHER -> {}

ScriptStrings(script) ==
    IF IsParsable(script) THEN JsonStrings(script.json)
    ELSE UNION {JsonStrings(script.bad[i].value) : i \in DOMAIN script.bad}

PageStrings(page) ==
    {page.head[k] : k \in DOMAIN page.head}
        \cup UNION {ScriptStrings(page.scripts[i]) : i \in DOMAIN page.scripts}
        \cup {page.markup[k] : k \in DOMAIN page.markup}
        \cup {page.text}

(***************************************************************************)
(* Block-page guard (products.py 252-257)                                  *)
(***************************************************************************)
queue_indicators ==
    {<<"w", "e", " ", "s", "h", "o", "u", "l", "d", " ", "b", "e", " ", "u", "p", " ", "a", "n", "d", " ", "m", "o", "v", "i", "n", "g", " ", "s", "h", "o", "r", "t", "l", "y">>, <<"p", "l", "e", "a", "s", "e", " ", "w", "a", "i", "t">>, <<"q", "u", "e", "u", "e">>, <<"h", "i", "g", "h", " ", "t", "r", "a", "f", "f", "i", "c">>,
     <<"c", "h", "e", "c", "k", "i", "n", "g", " ", "y", "o", "u", "r", " ", "b", "r", "o", "w", "s", "e", "r">>}

\* variant of IsBlocked: the page is searched as written, without .lower()
IsBlocked_CaseSensitive(page) ==
    \E s \in PageStrings(page), indicator \in queue_indicators : Contains(s, indicator)

\* any(indicator in html_lower for indicator in queue_indicators)
IsBlocked(page) ==
    \E s \in PageStrings(page) :
        LET html_lower == lower(s)
        IN  \E indicator \in queue_indicators : Contains(html_lower, indicator)

(***************************************************************************)
(* extract_json_ld (products.py 150-166)                                   *)
(***************************************************************************)
RECURSIVE extract_json_ld(_)
extract_json_ld(scripts) ==
    IF scripts = <<>> THEN <<>>
    ELSE LET match == scripts[1]
             rest == extract_json_ld(Tail(scripts))
         IN  IF ~IsParsable(match) THEN rest
             ELSE IF IsList(match.json) THEN match.json.list \o rest
             ELSE <<match.json>> \o rest

(***************************************************************************)
(* find_product_in_json_ld (products.py 214-234)                           *)
(***************************************************************************)
ProductTypes == {<<"P", "r", "o", "d", "u", "c", "t">>, <<"I", "n", "d", "i", "v", "i", "d", "u", "a", "l", "P", "r", "o", "d", "u", "c", "t">>, <<"P", "r", "o", "d", "u", "c", "t", "M", "o", "d", "e", "l">>}

\* item.get('@type', ''), its first member when it is a list
TypeOf(item) ==
    LET item_type == Get(item, "@type", Str(<<>>))
    IN  IF IsList(item_type)
        THEN (IF item_type.list # <<>> THEN item_type.list[1] ELSE Str(<<>>))
        ELSE item_type

IsProduct(item) == IsDict(item) /\ IsStr(TypeOf(item)) /\ TypeOf(item).str \in ProductTypes

\* `for graph_item in item['@graph']` raises TypeError on a value that cannot
\* be iterated; a str and a dict iterate over strs, which are no dicts
Iterable(v) == IsList(v) \/ IsDict(v) \/ IsStr(v)


NotFound == [found |-> FALSE, raised |-> FALSE, item |-> NoneV]
Found(item) == [found |-> TRUE, raised |-> FALSE, item |-> item]
TypeError == [found |-> FALSE, raised |-> TRUE, item |-> NoneV]

RECURSIVE find_product_in_json_ld(_)
find_product_in_json_ld(json_ld_list) ==
    IF json_ld_list = <<>> THEN NotFound
    ELSE LET item == json_ld_list[1]
             rest == Tail(json_ld_list)
         IN  IF ~IsDict(item) THEN find_product_in_json_ld(rest)
             ELSE IF IsProduct(item) THEN Found(item)
             ELSE IF ~Has(item, "@graph") THEN find_product_in_json_ld(rest)
             ELSE IF ~Iterable(item.dict["@graph"]) THEN TypeError
             ELSE LET graph == IF IsList(item.dict["@graph"]) THEN item.dict["@graph"].list ELSE <<>>
                      hits == {i \in DOMAIN graph : IsProduct(graph[i])}
                  IN  IF hits # {} THEN Found(graph[CHOOSE i \in hits : \A j \in hits : i <= j])
                      ELSE find_product_in_json_ld(rest)

(***************************************************************************)
(* clean_product_name (products.py 237-245)                                *)
(***************************************************************************)
\* the characters - | : and the en and em dashes
Separators == {"-", "|", ":", "EN DASH", "EM DASH"}

StoreWords ==
    {<<"A", "m", "a", "z", "o", "n">>, <<"e", "B", "a", "y">>, <<"B", "e", "s", "t", " ", "B", "u", "y">>, <<"W", "a", "l", "m", "a", "r", "t">>, <<"T", "a", "r", "g", "e", "t">>, <<"O", "f", "f", "i", "c", "i", "a", "l">>, <<"S", "h", "o", "p">>,
     <<"S", "t", "o", "r", "e">>, <<"B", "u", "y">>}

\* re.sub of \s*[-|–—:]\s*(Amazon|...|Buy).*$ ignoring case, then of
\* \s*\|\s*.*$, then strip: the name is cut at the leftmost place where the
\* pattern can put its separator, blanks before it included
CleanName(name) ==
    LET StoreSuffixAt(s, j) ==
            /\ s[j] \in Separators
            /\ \E w \in StoreWords : MatchAtI(s, SpaceRunEnd(s, j + 1) + 1, w)
        CutAt(s, hits) ==
            IF hits = {} THEN s
            ELSE LET j == CHOOSE i \in hits : \A k \in hits : i <= k
                 IN  Upto(s, SpaceRunStart(s, j - 1) - 1)
        no_store == CutAt(name, {j \in DOMAIN name : StoreSuffixAt(name, j)})
        no_bar == CutAt(no_store, {j \in DOMAIN no_store : no_store[j] = "|"})
    IN  strip(no_bar)

\* re.sub raises TypeError when handed a value that is no str
CleanRaises(name) == Truthy(name) /\ ~IsStr(name)

clean_product_name(name) == IF ~Truthy(name) THEN name ELSE Str(CleanName(name.str))

(***************************************************************************)
(* Strategy 1: JSON-LD structured data (products.py 259-318)               *)
(***************************************************************************)
Returned(d) == [raised |-> FALSE, data |-> d]
Raised == [raised |-> TRUE, data |-> ScrapedProductData]

\* lines 265-266
LdName(product_ld, d) ==
    IF Has(product_ld, "name") THEN [d EXCEPT !.name = clean_product_name(product_ld.dict["name"])] ELSE d

\* lines 269-273
LdBrand(product_ld, d) ==
    LET brand == Get(product_ld, "brand", NoneV)
    IN  IF IsDict(brand) THEN [d EXCEPT !.brand = Get(brand, "name", Str(<<>>))]
        ELSE IF IsStr(brand) THEN [d EXCEPT !.brand = brand]
        ELSE d

\* lines 276-278
FirstOffer(product_ld) ==
    LET offers == Get(product_ld, "offers", EmptyDict)
    IN  IF IsList(offers) THEN (IF offers.list # <<>> THEN offers.list[1] ELSE EmptyDict) ELSE offers

\* offers.get('price') or offers.get('lowPrice')
OfferPrice(offers) == Or(Get(offers, "price", NoneV), Get(offers, "lowPrice", NoneV))

\* float(str(price).replace(',', '.'))
PriceOf(price) == float(replace(str(price), ",", "."))

\* lines 279-285
LdPrice(product_ld, d) ==
    LET offers == FirstOffer(product_ld)
    IN  IF ~IsDict(offers) \/ ~Truthy(OfferPrice(offers)) \/ IsError(PriceOf(OfferPrice(offers))) THEN d
        ELSE [d EXCEPT !.price = PriceOf(OfferPrice(offers))]

\* lines 288-289
LdColor(product_ld, d) ==
    IF Has(product_ld, "color") THEN [d EXCEPT !.color = product_ld.dict["color"]] ELSE d

\* lines 292-297
LdModel(product_ld, d) ==
    IF Has(product_ld, "model") THEN [d EXCEPT !.model = product_ld.dict["model"]]
    ELSE IF Has(product_ld, "sku") THEN [d EXCEPT !.model = product_ld.dict["sku"]]
    ELSE IF Has(product_ld, "mpn") THEN [d EXCEPT !.model = product_ld.dict["mpn"]]
    ELSE d

\* ', '.join(mat) raises TypeError on a member that is no str
MaterialRaises(product_ld) ==
    LET JoinRaises(mat) == \E i \in DOMAIN mat.list : ~IsStr(mat.list[i])
    IN  Has(product_ld, "material") /\ IsList(product_ld.dict["material"]) /\ JoinRaises(product_ld.dict["material"])

\* lines 300-305
LdMaterial(product_ld, d) ==
    IF ~Has(product_ld, "material") THEN d
    ELSE LET mat == product_ld.dict["material"]
         IN  IF IsList(mat)
             THEN [d EXCEPT !.material = Str(join(<<",", " ">>, [i \in DOMAIN mat.list |-> mat.list[i].str]))]
             ELSE [d EXCEPT !.material = mat]

\* lines 308-309
LdSize(product_ld, d) ==
    IF Has(product_ld, "size") THEN [d EXCEPT !.size = product_ld.dict["size"]] ELSE d

ColorWords ==
    {<<"B", "l", "a", "c", "k">>, <<"W", "h", "i", "t", "e">>, <<"R", "e", "d">>, <<"B", "l", "u", "e">>, <<"G", "r", "e", "e", "n">>, <<"N", "a", "v", "y">>, <<"G", "r", "e", "y">>, <<"G", "r", "a", "y">>, <<"B", "r", "o", "w", "n">>,
     <<"B", "e", "i", "g", "e">>, <<"P", "i", "n", "k">>, <<"O", "r", "a", "n", "g", "e">>, <<"Y", "e", "l", "l", "o", "w">>, <<"P", "u", "r", "p", "l", "e">>, <<"G", "o", "l", "d">>, <<"S", "i", "l", "v", "e", "r">>}

\* \b(Black|...|Silver)\b, ignoring case: the text of the leftmost match,
\* <<>> when there is none
ColorWordIn(s) ==
    LET ColorWordAt(i, w) ==
            /\ MatchAtI(s, i, w)
            /\ i = 1 \/ ~IsWord(s[IF i = 1 THEN 1 ELSE i - 1])
            /\ i + Len(w) > Len(s) \/ ~IsWord(s[IF i + Len(w) > Len(s) THEN 1 ELSE i + Len(w)])
        hits == {i \in DOMAIN s : \E w \in ColorWords : ColorWordAt(i, w)}
    IN  IF hits = {} THEN <<>>
        ELSE LET i == CHOOSE h \in hits : \A k \in hits : h <= k
                 w == CHOOSE x \in ColorWords : ColorWordAt(i, x)
             IN  SubSeq(s, i, i + Len(w) - 1)

\* re.search raises TypeError on a description that is no str
DescriptionRaises(product_ld, d) ==
    LET description == Get(product_ld, "description", Str(<<>>))
    IN  ~Truthy(d.color) /\ Truthy(description) /\ ~IsStr(description)

\* lines 312-318
LdDescriptionColor(product_ld, d) ==
    LET description == Get(product_ld, "description", Str(<<>>))
    IN  IF ~Truthy(d.color) /\ Truthy(description) /\ ColorWordIn(description.str) # <<>>
        THEN [d EXCEPT !.color = Str(title(ColorWordIn(description.str)))]
        ELSE d

\* lines 263-318, in statement order; the first statement that raises ends the call
FromProduct(product_ld, d) ==
    IF Has(product_ld, "name") /\ CleanRaises(product_ld.dict["name"]) THEN Raised
    ELSE IF MaterialRaises(product_ld) THEN Raised
    ELSE LET filled == LdSize(product_ld, LdMaterial(product_ld, LdModel(product_ld,
                           LdColor(product_ld, LdPrice(product_ld, LdBrand(product_ld, LdName(product_ld, d)))))))
         IN  IF DescriptionRaises(product_ld, filled) THEN Raised
             ELSE Returned(LdDescriptionColor(product_ld, filled))

json_ld_stage(page, d) ==
    LET hit == find_product_in_json_ld(extract_json_ld(page.scripts))
    IN  IF hit.raised THEN Raised
        ELSE IF hit.found THEN FromProduct(hit.item, d)
        ELSE Returned(d)

(***************************************************************************)
(* Strategy 2: meta tags (extract_meta_tags, products.py 169-211, and      *)
(* lines 320-338)                                                          *)
(***************************************************************************)

\* meta[key] = match.group(1).strip()
extract_meta_tags(page) == Dict([k \in DOMAIN page.head |-> Str(strip(page.head[k]))])

\* meta.get('og_title') or meta.get('twitter_title') or meta.get('title', '')
MetaTitle(meta) ==
    Or(Get(meta, "og_title", NoneV), Or(Get(meta, "twitter_title", NoneV), Get(meta, "title", Str(<<>>))))

\* variant of Unset: a later stage writes the field whatever it holds
Unset_Always(v) == TRUE

\* `if not data.<field>:`
Unset(v) == ~Truthy(v)

\* lines 332-338
MetaPrice(meta, d) ==
    LET price_str == Get(meta, "price", NoneV)
    IN  IF ~Truthy(price_str) \/ IsError(PriceOf(price_str)) THEN d
        ELSE [d EXCEPT !.price = PriceOf(price_str)]

meta_stage(page, d) ==
    LET meta == extract_meta_tags(page)
        d1 == IF Unset(d.name) THEN [d EXCEPT !.name = clean_product_name(MetaTitle(meta))] ELSE d
        d2 == IF Unset(d1.brand) THEN [d1 EXCEPT !.brand = Get(meta, "brand", NoneV)] ELSE d1
        d3 == IF Unset(d2.color) THEN [d2 EXCEPT !.color = Get(meta, "color", NoneV)] ELSE d2
    IN  IF Unset(d3.price) THEN MetaPrice(meta, d3) ELSE d3

(***************************************************************************)
(* Strategy 3: regex patterns (products.py 340-372)                        *)
(***************************************************************************)
\* least member of a non-empty set of positions
Leftmost(hits) == CHOOSE i \in hits : \A k \in hits : i <= k

\* outcome of re.search: <<>> stands for no match, else the text of group 1
NoMatch == <<>>

\* "<key>"\s*:\s*"([^"]+)" over the script bodies: the value of the first
\* pair under the key that is a non-empty str
KeyString(page, key) ==
    LET pairs == AllPairs(page.scripts)
        hits == {i \in DOMAIN pairs : pairs[i].key = key /\ IsStr(pairs[i].value) /\ pairs[i].value.str # <<>>}
    IN  IF hits = {} THEN NoMatch ELSE pairs[Leftmost(hits)].value.str

\* "brand"\s*:\s*\{[^}]*"name"\s*:\s*"([^"]+)": a brand object whose name is
\* a non-empty str, no other object closing before the name is spelled
BrandObjectName(page) ==
    LET NamedBrand(v) ==
            /\ IsDict(v) /\ Has(v, "name") /\ IsStr(v.dict["name"]) /\ v.dict["name"].str # <<>>
            /\ \A k \in DOMAIN v.dict \cap {"@context", "@type"} : ~IsDict(v.dict[k]) /\ ~IsList(v.dict[k])
        pairs == AllPairs(page.scripts)
        hits == {i \in DOMAIN pairs : pairs[i].key = "brand" /\ NamedBrand(pairs[i].value)}
    IN  IF hits = {} THEN NoMatch ELSE pairs[Leftmost(hits)].value.dict["name"].str

\* itemprop=".." content=".." and data-..=".."
Attribute(page, key) == IF key \in DOMAIN page.markup THEN page.markup[key] ELSE NoMatch

\* brand_patterns, in order
BrandMatches(page) ==
    <<BrandObjectName(page), KeyString(page, "brand"), Attribute(page, "itemprop-brand"),
      Attribute(page, "data-brand")>>

\* len(brand) > 1 and len(brand) < 50
BrandLengthOk(brand) == Len(brand) > 1 /\ Len(brand) < 50

\* the first pattern, in order, that matches and whose stripped match passes
\* the test; 0 when there is none
FirstAccepted(matches, Ok(_)) ==
    LET hits == {i \in DOMAIN matches : matches[i] # NoMatch /\ Ok(strip(matches[i]))}
    IN  IF hits = {} THEN 0 ELSE Leftmost(hits)

regex_brand(page, d) ==
    LET matches == BrandMatches(page)
        k == FirstAccepted(matches, BrandLengthOk)
    IN  IF Unset(d.brand) /\ k # 0 THEN [d EXCEPT !.brand = Str(strip(matches[k]))] ELSE d

\* (\d+\.?\d*) or (\d+[,.]?\d*) read at position i of s; <<>> when s[i] is no digit
NumberAt(s, i, marks) ==
    LET e1 == DigitRunEnd(s, i)
        e2 == IF e1 + 1 <= Len(s) /\ s[IF e1 + 1 <= Len(s) THEN e1 + 1 ELSE 1] \in marks
              THEN DigitRunEnd(s, e1 + 2) ELSE e1
    IN  IF e1 < i THEN NoMatch ELSE SubSeq(s, i, e2)

\* "price"\s*:\s*"?(\d+\.?\d*)"? over the script bodies: the first pair under
\* the key price that is a number or a str, and starts with a digit
KeyPrice(page) ==
    LET PriceText(v) == IF IsStr(v) \/ IsNum(v) THEN str(v) ELSE <<>>
        pairs == AllPairs(page.scripts)
        hits == {i \in DOMAIN pairs : pairs[i].key = "price" /\ NumberAt(PriceText(pairs[i].value), 1, {"."}) # NoMatch}
    IN  IF hits = {} THEN NoMatch ELSE NumberAt(PriceText(pairs[Leftmost(hits)].value), 1, {"."})

\* data-price=["'](\d+\.?\d*)["']: the whole attribute value is the number
DataPrice(page) ==
    LET v == Attribute(page, "data-price")
    IN  IF v # NoMatch /\ NumberAt(v, 1, {"."}) = v THEN v ELSE NoMatch

\* class="..price.."[^>]*>[\s\S]*?[\$€£]?\s*(\d+[,.]?\d*): the first number
\* after the opening tag of the element, in its content or in the text
\* that follows it
PriceElement(page) ==
    IF "price-class" \notin DOMAIN page.markup THEN NoMatch
    ELSE LET tail == page.markup["price-class"] \o <<" ">> \o page.text
             hits == {i \in DOMAIN tail : IsDigit(tail[i])}
         IN  IF hits = {} THEN NoMatch ELSE NumberAt(tail, Leftmost(hits), {",", "."})

\* price_patterns, in order
PriceMatches(page) == <<KeyPrice(page), DataPrice(page), PriceElement(page)>>

\* 0.01 < price < 100000
PriceSane(price) == Scale \div 100 < price.num /\ price.num < 100000 * Scale

PriceAccepted(match) == ~IsError(PriceOf(Str(match))) /\ PriceSane(PriceOf(Str(match)))

regex_price(page, d) ==
    LET matches == PriceMatches(page)
        hits == {i \in DOMAIN matches : matches[i] # NoMatch /\ PriceAccepted(matches[i])}
    IN  IF Unset(d.price) /\ hits # {} THEN [d EXCEPT !.price = PriceOf(Str(matches[Leftmost(hits)]))] ELSE d

regex_stage(page, d) == regex_price(page, regex_brand(page, d))

(***************************************************************************)
(* Category-specific extractions (products.py 374-409)                     *)
(***************************************************************************)
\* \b before a word character at i, \b after a word character at i
BoundaryBefore(s, i) == i = 1 \/ ~IsWord(s[IF i = 1 THEN 1 ELSE i - 1])
BoundaryAfter(s, i) == i = Len(s) \/ ~IsWord(s[IF i = Len(s) THEN 1 ELSE i + 1])

\* end of the run of characters of a class given as a predicate, from i
RunEnd(s, i, InClass(_)) ==
    LET stops == {j \in i..Len(s) : ~InClass(s[j])}
    IN  IF stops # {} THEN Leftmost(stops) - 1 ELSE IF i > Len(s) THEN i - 1 ELSE Len(s)

IsAlnum(c) == IsAlpha(c) \/ IsDigit(c)

\* \b(\d+)\s*(GB|TB)\b, ignoring case: the leftmost match, as
\* f"{storage_match.group(1)}{storage_match.group(2).upper()}"
StorageIn(s) ==
    LET StorageUnitAt(i) == SpaceRunEnd(s, DigitRunEnd(s, i) + 1) + 1
        StorageAt(i) ==
            /\ IsDigit(s[i]) /\ BoundaryBefore(s, i)
            /\ \E unit \in {<<"G", "B">>, <<"T", "B">>} : MatchAtI(s, StorageUnitAt(i), unit)
            /\ BoundaryAfter(s, StorageUnitAt(i) + 1)
        hits == {i \in DOMAIN s : StorageAt(i)}
    IN  IF hits = {} THEN NoMatch
        ELSE LET i == Leftmost(hits)
                 u == StorageUnitAt(i)
             IN  SubSeq(s, i, DigitRunEnd(s, i)) \o upper(SubSeq(s, u, u + 1))

\* Model[\s:#]+([A-Z0-9][-A-Z0-9/]+), ignoring case: group 1 of the leftmost
\* match
ModelLabelIn(s) ==
    LET IsLabelGap(c) == c \in {" ", ":", "#"}
        IsModelChar(c) == IsAlnum(c) \/ c \in {"-", "/"}
        ModelStart(i) == RunEnd(s, i + 5, IsLabelGap) + 1
        ModelLabelAt(i) ==
            /\ MatchAtI(s, i, <<"M", "o", "d", "e", "l">>)
            /\ ModelStart(i) > i + 5
            /\ ModelStart(i) <= Len(s) /\ IsAlnum(s[IF ModelStart(i) <= Len(s) THEN ModelStart(i) ELSE 1])
            /\ RunEnd(s, ModelStart(i) + 1, IsModelChar) > ModelStart(i)
        hits == {i \in DOMAIN s : ModelLabelAt(i)}
    IN  IF hits = {} THEN NoMatch
        ELSE LET b == ModelStart(Leftmost(hits))
             IN  SubSeq(s, b, RunEnd(s, b + 1, IsModelChar))

\* model_patterns, in order
ModelMatches(page) ==
    <<KeyString(page, "model"), KeyString(page, "mpn"), KeyString(page, "sku"), ModelLabelIn(page.text)>>

\* len(model) > 2 and len(model) < 50
ModelLengthOk(model) == Len(model) > 2 /\ Len(model) < 50

Fibers ==
    {<<"C", "o", "t", "t", "o", "n">>, <<"P", "o", "l", "y", "e", "s", "t", "e", "r">>, <<"W", "o", "o", "l">>, <<"S", "i", "l", "k">>, <<"L", "i", "n", "e", "n">>, <<"N", "y", "l", "o", "n">>, <<"S", "p", "a", "n", "d", "e", "x">>, <<"E", "l", "a", "s", "t", "a", "n", "e">>,
     <<"V", "i", "s", "c", "o", "s", "e">>, <<"R", "a", "y", "o", "n">>}

\* (\d+%\s*(?:Cotton|...)[^<\n]*), ignoring case: the leftmost match, which
\* runs to the end of the text
CompositionIn(s) ==
    LET CompositionAt(i) ==
            /\ IsDigit(s[i])
            /\ MatchAt(s, DigitRunEnd(s, i) + 1, <<"%">>)
            /\ \E w \in Fibers : MatchAtI(s, SpaceRunEnd(s, DigitRunEnd(s, i) + 2) + 1, w)
        hits == {i \in DOMAIN s : CompositionAt(i)}
    IN  IF hits = {} THEN NoMatch ELSE From(s, Leftmost(hits) - 1)

\* Material[:\s]+([A-Za-z0-9%\s,]+?)(?:\.|<|$), ignoring case: group 1 of the
\* leftmost match, which runs to the first full stop or to the end of the text
MaterialLabelIn(s) ==
    LET IsMaterialGap(c) == c \in {" ", ":"}
        IsMaterialChar(c) == IsAlnum(c) \/ c \in {"%", " ", ","}
        MaterialStart(i) == RunEnd(s, i + 8, IsMaterialGap) + 1
        MaterialEnd(i) == RunEnd(s, MaterialStart(i), IsMaterialChar)
        MaterialLabelAt(i) ==
            /\ MatchAtI(s, i, <<"M", "a", "t", "e", "r", "i", "a", "l">>)
            /\ MaterialStart(i) > i + 8
            /\ MaterialEnd(i) >= MaterialStart(i)
            /\ MaterialEnd(i) = Len(s) \/ MatchAt(s, MaterialEnd(i) + 1, <<".">>)
        hits == {i \in DOMAIN s : MaterialLabelAt(i)}
    IN  IF hits = {} THEN NoMatch
        ELSE SubSeq(s, MaterialStart(Leftmost(hits)), MaterialEnd(Leftmost(hits)))

\* material_patterns, in order
MaterialMatches(page) ==
    <<KeyString(page, "material"), CompositionIn(page.text), MaterialLabelIn(page.text)>>

\* len(material) > 3 and len(material) < 150
MaterialLengthOk(material) == Len(material) > 3 /\ Len(material) < 150

Fill(d, field, matches, Ok(_)) ==
    LET k == FirstAccepted(matches, Ok)
    IN  IF Unset(d[field]) /\ k # 0 THEN [d EXCEPT ![field] = Str(strip(matches[k]))] ELSE d

\* lines 375-409; the storage match is stored as it is built
category_stage(page, cat, d) ==
    LET match == StorageIn(page.text)
        stored == IF Unset(d.storage) /\ match # NoMatch THEN [d EXCEPT !.storage = Str(match)] ELSE d
    IN  CASE cat = "electronics" -> Fill(stored, "model", ModelMatches(page), ModelLengthOk)
          [] cat = "clothes" -> Fill(d, "material", MaterialMatches(page), MaterialLengthOk)
          [] OTHER -> d

(***************************************************************************)
(* Colour, if still missing (products.py 411-424)                          *)
(***************************************************************************)
\* [Cc]olou?r[:\s]+([A-Za-z\s]+?)(?:\s*[,.<]|$): group 1 of the leftmost
\* match.  The group starts at b, after the label and its gap, and is the
\* shortest run of letters and blanks, from b, followed by blanks and one
\* of , . < or by the end of the text
ColorLabelIn(s) ==
    LET IsColorGap(c) == c \in {" ", ":"}
        IsColorChar(c) == IsAlpha(c) \/ c = " "
        ColorLabelEnd(i) ==
            IF MatchAt(s, i, <<"C", "o", "l", "o", "r">>) \/ MatchAt(s, i, <<"c", "o", "l", "o", "r">>) THEN i + 5
            ELSE IF MatchAt(s, i, <<"C", "o", "l", "o", "u", "r">>) \/ MatchAt(s, i, <<"c", "o", "l", "o", "u", "r">>) THEN i + 6
            ELSE 0
        ColorStart(i) == RunEnd(s, ColorLabelEnd(i), IsColorGap) + 1
        ColorStops(b) ==
            {e \in b..RunEnd(s, b, IsColorChar) :
                LET after == SpaceRunEnd(s, e + 1) + 1
                IN  after > Len(s) \/ s[IF after > Len(s) THEN 1 ELSE after] \in {",", "."}}
        ColorLabelAt(i) ==
            /\ ColorLabelEnd(i) # 0
            /\ ColorStart(i) > ColorLabelEnd(i)
            /\ ColorStops(ColorStart(i)) # {}
        hits == {i \in DOMAIN s : ColorLabelAt(i)}
    IN  IF hits = {} THEN NoMatch
        ELSE LET b == ColorStart(Leftmost(hits))
             IN  SubSeq(s, b, Leftmost(ColorStops(b)))

\* color_patterns, in order
ColorMatches(page) == <<KeyString(page, "color"), Attribute(page, "data-color"), ColorLabelIn(page.text)>>

\* len(color) > 2 and len(color) < 40 and not re.search(r'\d', color)
ColorOk(color) == Len(color) > 2 /\ Len(color) < 40 /\ \A i \in DOMAIN color : ~IsDigit(color[i])

color_stage(page, d) == Fill(d, "color", ColorMatches(page), ColorOk)

(***************************************************************************)
(* Search query (products.py 426-446)                                      *)
(***************************************************************************)
\* re.sub(re.escape(brand), '', name, flags=re.IGNORECASE)
RECURSIVE RemoveAll(_, _)
RemoveAll(s, brand) ==
    IF s = <<>> THEN <<>>
    ELSE IF MatchAtI(s, 1, brand) THEN RemoveAll(From(s, Len(brand)), brand)
    ELSE <<s[1]>> \o RemoveAll(Tail(s), brand)

\* re.sub(r'\s+', ' ', s)
RECURSIVE SingleSpaces(_)
SingleSpaces(s) ==
    IF s = <<>> THEN <<>>
    ELSE IF IsSpace(s[1]) THEN <<" ">> \o SingleSpaces(lstrip(s))
    ELSE <<s[1]>> \o SingleSpaces(Tail(s))

\* variant of NameForSearch: the brand is left in the name
NameForSearch_BrandKept(d) == strip(SingleSpaces(d.name.str))

\* lines 431-435
NameForSearch(d) ==
    LET name == d.name.str
        cut == IF Truthy(d.brand) /\ Contains(lower(name), lower(d.brand.str))
               THEN strip(RemoveAll(name, d.brand.str)) ELSE name
    IN  strip(SingleSpaces(cut))

\* .lower() and `in` raise on a brand, a model or a colour that holds a
\* value other than a str
QueryRaises(d) == \E f \in {"brand", "model", "color"} : Truthy(d[f]) /\ ~IsStr(d[f])

SearchParts(d) ==
    LET p1 == IF Truthy(d.brand) THEN <<d.brand.str>> ELSE <<>>
        p2 == IF Truthy(d.name) /\ NameForSearch(d) # <<>> THEN Append(p1, NameForSearch(d)) ELSE p1
        p3 == IF Truthy(d.model) /\ ~Contains(join(<<" ">>, p2), d.model.str) THEN Append(p2, d.model.str) ELSE p2
    IN  IF Truthy(d.color) /\ ~Contains(lower(join(<<" ">>, p3)), lower(d.color.str))
        THEN Append(p3, d.color.str) ELSE p3

query_stage(d) ==
    IF QueryRaises(d) THEN Raised
    ELSE IF SearchParts(d) # <<>> THEN Returned([d EXCEPT !.search_query = Str(join(<<" ">>, SearchParts(d)))])
    ELSE Returned(d)


(***************************************************************************)
(* extract_price (services/scraper.py 30-46).  The currency signs that are *)
(* no ASCII are written by name.                                           *)
(***************************************************************************)
NotCalled == [pending |-> TRUE]

\* [€$£¥₹Ft]: a character class, so F and t go one by one
CurrencyChars == {"EURO SIGN", "$", "POUND SIGN", "YEN SIGN", "RUPEE SIGN", "F", "t"}

\* EUR|USD|GBP|HUF
CurrencyCodes == {<<"E", "U", "R">>, <<"U", "S", "D">>, <<"G", "B", "P">>, <<"H", "U", "F">>}

\* re.sub(r'[...]', '', s) for a set of characters
RemoveChars(s, chars) == SelectSeq(s, LAMBDA c : c \notin chars)

\* re.sub(r'EUR|USD|GBP|HUF', '', s): matches are taken left to right
RECURSIVE RemoveCodes(_)
RemoveCodes(s) ==
    IF s = <<>> THEN <<>>
    ELSE IF \E w \in CurrencyCodes : MatchAt(s, 1, w) THEN RemoveCodes(From(s, 3))
    ELSE <<s[1]>> \o RemoveCodes(Tail(s))

\* lines 35-38
Cleaned(s) == RemoveCodes(RemoveChars(RemoveChars(replace(s, ",", "."), {" "}), CurrencyChars))

\* re.findall(r'[\d]+\.?\d*', cleaned)[0]; NoMatch when the list is empty
FirstNumber(cleaned) ==
    LET hits == {i \in DOMAIN cleaned : IsDigit(cleaned[i])}
    IN  IF hits = {} THEN NoMatch ELSE NumberAt(cleaned, Leftmost(hits), {"."})

\* variant of extract_price: blanks are left in the string
extract_price_BlanksKept(s) ==
    LET number == FirstNumber(RemoveCodes(RemoveChars(replace(s, ",", "."), CurrencyChars)))
    IN  IF s = <<>> \/ number = NoMatch \/ IsError(float(number)) THEN NoneV ELSE float(number)

extract_price(s) ==
    IF s = <<>> THEN NoneV
    ELSE LET number == FirstNumber(Cleaned(s))
         IN  IF number = NoMatch THEN NoneV
             ELSE IF IsError(float(number)) THEN NoneV
             ELSE float(number)

\* a shopping result: the values under its keys "price" and
\* "extracted_price", None for a key it does not carry
NoItem == [price |-> NoneV, extracted_price |-> NoneV]

\* the price the loop of search_google_shopping reads from one result
\* (scraper.py 113-120); None has the result dropped (122-123)
item_price(item) ==
    LET price_str == IF Truthy(item.price) THEN item.price ELSE item.extracted_price
    IN  IF Truthy(item.extracted_price) THEN item.extracted_price
        ELSE IF Truthy(price_str) THEN extract_price(price_str.str)
        ELSE NoneV

(***************************************************************************)
(* Bounds and input domains                                                *)
(***************************************************************************)
MaxQuotes == 2          \* shopping results per search
MaxDays == 1            \* the clock is sampled around day 0 .. MaxDays

COOLDOWN_HOURS == 24    \* hours=24 in check_and_send_alert

None == "None"
ProductIds == {1, 2}
Retailers == {"A", "B"}
Prices == {1, 2, 3}
TargetPrices == {2}
Reqs == {1, 2}

\* clock readings: each day boundary and the two hours after it
TimePoints == {d * COOLDOWN_HOURS + o : d \in 0..MaxDays, o \in {0, 1}}

\* raw shopping results of the search feed; a result that carries no
\* extracted_price reads as 0 (both are falsy at scraper.py 113-117)
FeedItems(sources) == [source : sources, extracted_price : Prices \cup {0}]

RECURSIVE SeqsUpTo(_, _)
SeqsUpTo(S, n) ==
    IF n = 0 THEN {<<>>}
    ELSE LET shorter == SeqsUpTo(S, n - 1)
         IN  shorter \cup {Append(s, x) : s \in {t \in shorter : Len(t) = n - 1}, x \in S}

\* the feeds of a search: any retailers, or one retailer only
Feeds == SeqsUpTo(FeedItems(Retailers), MaxQuotes)
SingleSourceFeeds == SeqsUpTo(FeedItems({"A"}), MaxQuotes)

(***************************************************************************)
(* services/scraper.py                                                     *)
(***************************************************************************)
\* whether a shopping result yields a price, and which (scraper.py 113-123)
ItemHasPrice(item) == item.extracted_price # 0

ItemPrice(item) == item.extracted_price

RECURSIVE search_google_shopping(_)
search_google_shopping(results) ==
    IF results = <<>> THEN <<>>
    ELSE LET item == Head(results)
             rest == search_google_shopping(Tail(results))
         IN  IF ~ItemHasPrice(item) THEN rest
             ELSE <<[retailer |-> item.source, price |-> ItemPrice(item)]>> \o rest

(***************************************************************************)
(* database.py                                                             *)
(***************************************************************************)
\* variants of RecentAlertRows: a window one hour short; a window closed at its far end
RecentAlertRows_ShortWindow(rows, product_id, hours, t) ==
    {i \in DOMAIN rows : rows[i].product_id = product_id /\ rows[i].sent_at > t - (hours - 1)}

RecentAlertRows_Inclusive(rows, product_id, hours, t) ==
    {i \in DOMAIN rows : rows[i].product_id = product_id /\ rows[i].sent_at >= t - hours}

\* rows of alerts_sent for the product with sent_at > now - hours
RecentAlertRows(rows, product_id, hours, t) ==
    {i \in DOMAIN rows : rows[i].product_id = product_id /\ rows[i].sent_at > t - hours}

\* ORDER BY sent_at DESC LIMIT 1; NoAlert (None) when there is no such row
NoAlert == [product_id |-> 0, price |-> 0, retailer |-> None, sent_at |-> 0]

get_recent_alert(rows, product_id, hours, t) ==
    LET hit == RecentAlertRows(rows, product_id, hours, t)
    IN  IF hit = {} THEN NoAlert
        ELSE rows[CHOOSE i \in hit : \A j \in hit :
                    rows[j].sent_at < rows[i].sent_at
                    \/ (rows[j].sent_at = rows[i].sent_at /\ j <= i)]

add_alert_record(rows, product_id, price, retailer, t) ==
    Append(rows, [product_id |-> product_id, price |-> price,
                  retailer |-> retailer, sent_at |-> t])

add_price_record(rows, product_id, quote) ==
    rows \cup {[product_id |-> product_id, retailer |-> quote.retailer,
                price |-> quote.price]}

\* variant of add_price_records: only the first quote is stored
add_price_records_FirstOnly(rows, product_id, prices) ==
    IF prices = <<>> THEN rows ELSE add_price_record(rows, product_id, Head(prices))

RECURSIVE add_price_records(_, _, _)
add_price_records(rows, product_id, prices) ==
    IF prices = <<>> THEN rows
    ELSE add_price_records(add_price_record(rows, product_id, Head(prices)),
                           product_id, Tail(prices))

\* SELECT * FROM products [WHERE is_active = 1] ORDER BY created_at DESC
RECURSIVE ProductRowsDesc(_, _)
ProductRowsDesc(tbl, ids) ==
    IF ids = {} THEN <<>>
    ELSE LET m == CHOOSE i \in ids : \A j \in ids : j <= i
         IN  <<[id |-> m, target_price |-> tbl[m].target_price,
                is_active |-> tbl[m].is_active]>> \o ProductRowsDesc(tbl, ids \ {m})

\* variant of get_all_products: the flag is not looked at
get_all_products_Everything(tbl, active_only) == ProductRowsDesc(tbl, DOMAIN tbl)

get_all_products(tbl, active_only) ==
    ProductRowsDesc(tbl, {i \in DOMAIN tbl : ~active_only \/ tbl[i].is_active})

get_product(tbl, product_id) ==
    [id |-> product_id, target_price |-> tbl[product_id].target_price,
     is_active |-> tbl[product_id].is_active]

(***************************************************************************)
(* routers/prices.py: min(prices, key=lambda x: x["price"])                *)
(***************************************************************************)
\* variants of MinIndex: the last of the cheapest quotes; the first quote whatever its price
MinIndex_Last(prices) ==
    CHOOSE i \in DOMAIN prices :
        /\ \A j \in DOMAIN prices : prices[i].price <= prices[j].price
        /\ \A j \in DOMAIN prices : j > i => prices[j].price > prices[i].price

MinIndex_Head(prices) == CHOOSE i \in DOMAIN prices : i = 1

\* index of the first quote whose price no other quote undercuts
MinIndex(prices) ==
    CHOOSE i \in DOMAIN prices :
        /\ \A j \in DOMAIN prices : prices[i].price <= prices[j].price
        /\ \A j \in DOMAIN prices : j < i => prices[j].price > prices[i].price

LowestQuote(prices) == prices[MinIndex(prices)]

(***************************************************************************)
(* services/alerts.py                                                      *)
(***************************************************************************)
\* variant of AtOrAboveTarget: a price equal to the target passes
AtOrAboveTarget_Strict(lowest_price, target_price) == lowest_price > target_price

\* line 118: `if lowest_price >= product["target_price"]: return False`
AtOrAboveTarget(lowest_price, target_price) == lowest_price >= target_price

\* variant of Delivered: the alert is recorded whatever the delivery returned
Delivered_Always(email_id) == TRUE

\* line 136: `if email_id:`
Delivered(email_id) == email_id # None

(***************************************************************************)
(* Handler frames                                                          *)
(***************************************************************************)
NoProduct == [id |-> 0, target_price |-> 0, is_active |-> FALSE]
NoQuote == [retailer |-> None, price |-> 0]
NoStats == [total_prices |-> 0, total_alerts |-> 0, errors |-> 0]

IdleFrame ==
    [pc |-> "idle", kind |-> None, todo |-> <<>>, product |-> NoProduct,
     prices |-> <<>>, lowest |-> NoQuote, results |-> <<>>, stats |-> NoStats]

\* one entry of a response body (scrape_product, scrape_all_products) or one
\* printed outcome (run_scraper)
Entry(product_id, message, prices_found, alert_sent, error) ==
    [product_id |-> product_id, message |-> message, prices_found |-> prices_found,
     alert_sent |-> alert_sent, error |-> error]

PyBool(b) == IF b THEN "True" ELSE "False"

\* the handler's code after check_and_send_alert has returned `sent`
\* (prices.py 74-78, 122-127; run_scraper.py 91-95)
AfterAlert(f, sent) ==
    LET n == Len(f.prices)
        id == f.product.id
    IN  CASE f.kind = "scrape_product" ->
                [f EXCEPT !.pc = "done",
                          !.results = <<Entry(id, "Found prices", n, PyBool(sent), None)>>]
          [] f.kind = "scrape_all_products" ->
                [f EXCEPT !.pc = "next",
                          !.results = Append(@, Entry(id, None, n, PyBool(sent), None))]
          [] f.kind = "run_scraper" ->
                [f EXCEPT !.pc = "next",
                          !.stats.total_alerts = IF sent THEN @ + 1 ELSE @,
                          !.results = Append(@, Entry(id,
                                IF sent THEN "Alert sent" ELSE "Alert skipped",
                                n, PyBool(sent), None))]

\* variant of AfterRaise: an exception ends the batch
AfterRaise_Aborts(f, error) ==
    [f EXCEPT !.pc = "done",
              !.results = Append(@, Entry(f.product.id, None, 0, None, error))]

\* an exception raised while a product is processed: scrape_product lets it
\* propagate, the batch loops catch it (prices.py 129-134, run_scraper.py 97-99)
AfterRaise(f, error) ==
    LET id == f.product.id
    IN  CASE f.kind = "scrape_product" ->
                [f EXCEPT !.pc = "done",
                          !.results = <<Entry(id, "Internal Server Error", 0, None, error)>>]
          [] f.kind = "scrape_all_products" ->
                [f EXCEPT !.pc = "next",
                          !.results = Append(@, Entry(id, None, 0, None, error))]
          [] f.kind = "run_scraper" ->
                [f EXCEPT !.pc = "next",
                          !.stats.errors = @ + 1,
                          !.results = Append(@, Entry(id, "ERROR", 0, None, error))]

(***************************************************************************)
(* Initial state                                                           *)
(***************************************************************************)
InitOver(ids, actives) ==
    /\ settings \in [serpapi_key : BOOLEAN, resend_api_key : BOOLEAN]
    /\ products \in [ids -> [target_price : TargetPrices, is_active : actives]]
    /\ price_history = {}
    /\ alerts_sent = <<>>
    /\ now = 0
    /\ emails = {}
    /\ last_delivery = [p \in ProductIds |-> "never"]
    /\ rq = [r \in Reqs |-> IdleFrame]
    /\ html = NoDocument
    /\ category = "electronics"
    /\ data = ScrapedProductData
    /\ xpc = "idle"
    /\ price_string = <<>>
    /\ parsed = NotCalled
    /\ shopping_item = NoItem
    /\ quoted = NotCalled

\* the tracked products are active
InitWith(ids) == InitOver(ids, {TRUE})

\* one tracked product
Init == InitWith({1})

\* every product tracked
InitAll == InitWith(ProductIds)

AllIdle == \A r \in Reqs : rq[r].pc = "idle"

(***************************************************************************)
(* POST /api/prices/{product_id}/scrape, up to the search (prices.py 33-37)*)
(***************************************************************************)
scrape_product(r, product_id) ==
    /\ rq[r].pc = "idle"
    /\ rq' = [rq EXCEPT ![r] = [IdleFrame EXCEPT !.pc = "scrape",
                                                 !.kind = "scrape_product",
                                                 !.product = get_product(products, product_id)]]
    /\ UNCHANGED <<xvars, pvars, settings, products, price_history, alerts_sent, now, emails, last_delivery>>

(***************************************************************************)
(* POST /api/prices/scrape-all: list the active products (prices.py 84-86) *)
(***************************************************************************)
scrape_all_products(r) ==
    /\ rq[r].pc = "idle"
    /\ rq' = [rq EXCEPT ![r] = [IdleFrame EXCEPT !.pc = "next",
                                                 !.kind = "scrape_all_products",
                                                 !.todo = get_all_products(products, TRUE)]]
    /\ UNCHANGED <<xvars, pvars, settings, products, price_history, alerts_sent, now, emails, last_delivery>>

(***************************************************************************)
(* scripts/run_scraper.py: list the products, check the key (lines 29-43)  *)
(***************************************************************************)
run_scraper(r) ==
    /\ rq[r].pc = "idle"
    /\ LET listed == get_all_products(products, TRUE)
           f == [IdleFrame EXCEPT !.kind = "run_scraper"]
       IN  rq' = [rq EXCEPT ![r] =
                    IF listed = <<>>
                    THEN [f EXCEPT !.pc = "done",
                                   !.results = <<Entry(0, "No active products to scrape", 0, None, None)>>]
                    ELSE IF ~settings.serpapi_key
                    THEN [f EXCEPT !.pc = "done",
                                   !.results = <<Entry(0, "ERROR: SERPAPI_KEY not configured", 0, None, None)>>]
                    ELSE [f EXCEPT !.pc = "next", !.todo = listed]]
    /\ UNCHANGED <<xvars, pvars, settings, products, price_history, alerts_sent, now, emails, last_delivery>>

(***************************************************************************)
(* `for product in products:` of both batch handlers                       *)
(***************************************************************************)
NextProduct(r) ==
    /\ rq[r].pc = "next"
    /\ rq' = [rq EXCEPT ![r] =
                IF rq[r].todo = <<>>
                THEN [@ EXCEPT !.pc = "done", !.product = NoProduct,
                               !.prices = <<>>, !.lowest = NoQuote]
                ELSE [@ EXCEPT !.pc = "scrape", !.product = Head(rq[r].todo),
                               !.todo = Tail(rq[r].todo),
                               !.prices = <<>>, !.lowest = NoQuote]]
    /\ UNCHANGED <<xvars, pvars, settings, products, price_history, alerts_sent, now, emails, last_delivery>>

(***************************************************************************)
(* scrape_product_prices / search_google_shopping and the handler's test   *)
(* of the result (prices.py 40-53, 89-99; run_scraper.py 51-60)            *)
(***************************************************************************)
\* variant of KeyMissing: the search runs without a key
KeyMissing_Never(s) == FALSE

\* scraper.py 67: `if not settings.serpapi_key:`
KeyMissing(s) == ~s.serpapi_key

\* the search raises: no API key (scraper.py 67-68) or the service fails
SearchRaises(r, error) ==
    /\ rq[r].pc = "scrape"
    /\ IF KeyMissing(settings) THEN error = "SERPAPI_KEY not configured"
                               ELSE error = "search failed"
    /\ rq' = [rq EXCEPT ![r] = AfterRaise(@, error)]
    /\ UNCHANGED <<xvars, pvars, settings, products, price_history, alerts_sent, now, emails, last_delivery>>

\* variant of AfterNoPrices: an empty result is reported as an error
AfterNoPrices_AsError(f) == AfterRaise(f, "No prices found")

\* the handler's code after a search that returned no quote (prices.py
\* 52-53, 101-127; run_scraper.py 58-60)
AfterNoPrices(f) ==
    LET id == f.product.id
    IN  CASE f.kind = "scrape_product" ->
                [f EXCEPT !.pc = "done",
                          !.results = <<Entry(id, "No prices found", 0, None, None)>>]
          [] f.kind = "scrape_all_products" ->
                [f EXCEPT !.pc = "next",
                          !.results = Append(@, Entry(id, None, 0, "False", None))]
          [] f.kind = "run_scraper" ->
                [f EXCEPT !.pc = "next",
                          !.results = Append(@, Entry(id, "No prices found", 0, None, None))]

SearchReturns(r, shopping_results) ==
    /\ rq[r].pc = "scrape"
    /\ ~KeyMissing(settings)
    /\ LET prices == search_google_shopping(shopping_results)
           f == [rq[r] EXCEPT !.prices = prices]
       IN  rq' = [rq EXCEPT ![r] = IF prices # <<>> THEN [f EXCEPT !.pc = "store"] ELSE AfterNoPrices(f)]
    /\ UNCHANGED <<xvars, pvars, settings, products, price_history, alerts_sent, now, emails, last_delivery>>

(***************************************************************************)
(* store the batch, pick the lowest quote (prices.py 56-66, 101-112;       *)
(* run_scraper.py 65-81)                                                   *)
(***************************************************************************)
StorePrices(r) ==
    /\ rq[r].pc = "store"
    /\ price_history' = add_price_records(price_history, rq[r].product.id, rq[r].prices)
    /\ LET lowest == LowestQuote(rq[r].prices)
           f == [rq[r] EXCEPT !.lowest = lowest,
                              !.stats.total_prices = IF rq[r].kind = "run_scraper"
                                                     THEN @ + Len(rq[r].prices) ELSE @]
       IN  rq' = [rq EXCEPT ![r] =
                    IF f.kind = "run_scraper" /\ ~(lowest.price < f.product.target_price)
                    THEN [f EXCEPT !.pc = "next",
                                   !.results = Append(@, Entry(f.product.id, "Found prices",
                                                               Len(f.prices), None, None))]
                    ELSE [f EXCEPT !.pc = "check"]]
    /\ UNCHANGED <<xvars, pvars, settings, products, alerts_sent, now, emails, last_delivery>>

\* add_price_record raises (the database refuses the write) after k rows of
\* the batch went in
StoreRaises(r, k) ==
    /\ rq[r].pc = "store"
    /\ k < Len(rq[r].prices)
    /\ price_history' = add_price_records(price_history, rq[r].product.id, SubSeq(rq[r].prices, 1, k))
    /\ rq' = [rq EXCEPT ![r] = AfterRaise(@, "database error")]
    /\ UNCHANGED <<xvars, pvars, settings, products, alerts_sent, now, emails, last_delivery>>

(***************************************************************************)
(* check_and_send_alert (alerts.py 104-141), in three steps: the two gates,*)
(* the delivery, the insert                                                *)
(***************************************************************************)
CheckAlert(r) ==
    /\ rq[r].pc = "check"
    /\ LET f == rq[r]
       IN  rq' = [rq EXCEPT ![r] =
                    IF AtOrAboveTarget(f.lowest.price, f.product.target_price)
                    THEN AfterAlert(f, FALSE)
                    ELSE IF get_recent_alert(alerts_sent, f.product.id, COOLDOWN_HOURS, now) # NoAlert
                    THEN AfterAlert(f, FALSE)
                    ELSE [f EXCEPT !.pc = "send"]]
    /\ UNCHANGED <<xvars, pvars, settings, products, price_history, alerts_sent, now, emails, last_delivery>>

\* send_price_alert: raises without an API key, else the id of the message
\* or None (alerts.py 22-23, 90-101)
SendAlert(r, email_id) ==
    /\ rq[r].pc = "send"
    /\ LET f == rq[r]
       IN  IF ~settings.resend_api_key
           THEN /\ email_id = None
                /\ rq' = [rq EXCEPT ![r] = AfterRaise(f, "RESEND_API_KEY not configured")]
                /\ UNCHANGED <<emails, last_delivery>>
           ELSE /\ rq' = [rq EXCEPT ![r] = IF Delivered(email_id)
                                           THEN [f EXCEPT !.pc = "record"]
                                           ELSE AfterAlert(f, FALSE)]
                /\ emails' = IF email_id # None
                             THEN emails \cup {[product_id |-> f.product.id, at |-> now]}
                             ELSE emails
                /\ last_delivery' = [last_delivery EXCEPT ![f.product.id] =
                                        IF email_id # None THEN "delivered" ELSE "failed"]
    /\ UNCHANGED <<xvars, pvars, settings, products, price_history, alerts_sent, now>>

RecordAlert(r) ==
    /\ rq[r].pc = "record"
    /\ alerts_sent' = add_alert_record(alerts_sent, rq[r].product.id,
                                       rq[r].lowest.price, rq[r].lowest.retailer, now)
    /\ rq' = [rq EXCEPT ![r] = AfterAlert(@, TRUE)]
    /\ UNCHANGED <<xvars, pvars, settings, products, price_history, now, emails, last_delivery>>

\* the response has been sent (the script has exited)
Finish(r) ==
    /\ rq[r].pc = "done"
    /\ rq' = [rq EXCEPT ![r] = IdleFrame]
    /\ UNCHANGED <<xvars, pvars, settings, products, price_history, alerts_sent, now, emails, last_delivery>>

\* the wall clock advances
Tick(t) ==
    /\ t > now
    /\ now' = t
    /\ UNCHANGED <<xvars, pvars, settings, products, price_history, alerts_sent, emails, last_delivery, rq>>

(***************************************************************************)
(* Spec: sequentially executed evaluation cycles for one product, one      *)
(* retailer in the feed, over the cooldown window: a handler starts only   *)
(* when no other is running                                                *)
(***************************************************************************)
Next ==
    \/ \E p \in DOMAIN products : AllIdle /\ scrape_product(1, p)
    \/ AllIdle /\ scrape_all_products(1)
    \/ AllIdle /\ run_scraper(1)
    \/ NextProduct(1)
    \/ \E e \in {"search failed", "SERPAPI_KEY not configured"} : SearchRaises(1, e)
    \/ \E f \in SingleSourceFeeds : SearchReturns(1, f)
    \/ StorePrices(1)
    \/ CheckAlert(1)
    \/ \E id \in {"id", None} : SendAlert(1, id)
    \/ RecordAlert(1)
    \/ Finish(1)
    \/ \E t \in TimePoints : Tick(t)

Spec == Init /\ [][Next]_vars

(***************************************************************************)
(* SpecOneRun: one run of one handler over every product, any retailers in *)
(* the feed, the clock standing still                                      *)
(***************************************************************************)
NextOneRun ==
    \/ \E p \in DOMAIN products : AllIdle /\ scrape_product(1, p)
    \/ AllIdle /\ scrape_all_products(1)
    \/ AllIdle /\ run_scraper(1)
    \/ NextProduct(1)
    \/ \E e \in {"search failed", "SERPAPI_KEY not configured"} : SearchRaises(1, e)
    \/ \E f \in Feeds : SearchReturns(1, f)
    \/ StorePrices(1)
    \/ CheckAlert(1)
    \/ \E id \in {"id", None} : SendAlert(1, id)
    \/ RecordAlert(1)

SpecOneRun == InitAll /\ [][NextOneRun]_vars

(***************************************************************************)
(* SpecBatch: one run of one handler over the tracked products, active or  *)
(* not, one retailer in the feed, the database failing at will             *)
(***************************************************************************)
InitBatch == InitOver(ProductIds, BOOLEAN)

NextBatch ==
    \/ \E p \in DOMAIN products : AllIdle /\ scrape_product(1, p)
    \/ AllIdle /\ scrape_all_products(1)
    \/ AllIdle /\ run_scraper(1)
    \/ NextProduct(1)
    \/ \E e \in {"search failed", "SERPAPI_KEY not configured"} : SearchRaises(1, e)
    \/ \E f \in SingleSourceFeeds : SearchReturns(1, f)
    \/ StorePrices(1)
    \/ \E k \in 0..MaxQuotes : StoreRaises(1, k)
    \/ CheckAlert(1)
    \/ \E id \in {"id", None} : SendAlert(1, id)
    \/ RecordAlert(1)

SpecBatch == InitBatch /\ [][NextBatch]_vars

(***************************************************************************)
(* SpecConcurrent: two handlers run at once over one product (a request    *)
(* and the cron script are two processes; two requests interleave at each  *)
(* await), the clock standing still                                        *)
(***************************************************************************)
\* feeds of at most one result
OneQuoteFeeds == SeqsUpTo(FeedItems({"A"}), 1)

NextConcurrent ==
    \E r \in Reqs :
        \/ \E p \in DOMAIN products : scrape_product(r, p)
        \/ scrape_all_products(r)
        \/ run_scraper(r)
        \/ NextProduct(r)
        \/ \E e \in {"search failed", "SERPAPI_KEY not configured"} : SearchRaises(r, e)
        \/ \E f \in OneQuoteFeeds : SearchReturns(r, f)
        \/ StorePrices(r)
        \/ CheckAlert(r)
        \/ \E id \in {"id", None} : SendAlert(r, id)
        \/ RecordAlert(r)

SpecConcurrent == Init /\ [][NextConcurrent]_vars

(***************************************************************************)
(* routers/products.py: create, toggle, delete                             *)
(***************************************************************************)
\* POST /api/products (products.py 31-42, database.py 111-136): the row is
\* inserted with is_active at its default 1 under an id that was never used
\* (AUTOINCREMENT)
create_product(product_id, target_price) ==
    /\ \A p \in DOMAIN products : p < product_id
    /\ \A row \in price_history : row.product_id < product_id
    /\ \A i \in DOMAIN alerts_sent : alerts_sent[i].product_id < product_id
    /\ products' = [p \in DOMAIN products \cup {product_id} |->
                        IF p = product_id
                        THEN [target_price |-> target_price, is_active |-> TRUE]
                        ELSE products[p]]
    /\ UNCHANGED <<xvars, pvars, settings, price_history, alerts_sent, now, emails, last_delivery, rq>>

\* POST /api/products/{id}/toggle (products.py 105-115)
toggle_product(product_id) ==
    /\ product_id \in DOMAIN products
    /\ products' = [products EXCEPT ![product_id].is_active = ~@]
    /\ UNCHANGED <<xvars, pvars, settings, price_history, alerts_sent, now, emails, last_delivery, rq>>

\* DELETE /api/products/{id} (products.py 95-102, database.py 183-192): the
\* row of the product goes, no connection turns foreign keys on, so its
\* price and alert rows stay
delete_product(product_id) ==
    /\ product_id \in DOMAIN products
    /\ products' = [p \in DOMAIN products \ {product_id} |-> products[p]]
    /\ UNCHANGED <<xvars, pvars, settings, price_history, alerts_sent, now, emails, last_delivery, rq>>

(***************************************************************************)
(* SpecAdmin: handlers run one after another while products are created,   *)
(* toggled and deleted, the clock standing still                           *)
(***************************************************************************)
NextAdmin ==
    \/ \E p \in ProductIds, t \in TargetPrices : create_product(p, t)
    \/ \E p \in ProductIds : toggle_product(p)
    \/ \E p \in ProductIds : delete_product(p)
    \/ \E p \in DOMAIN products : AllIdle /\ scrape_product(1, p)
    \/ AllIdle /\ scrape_all_products(1)
    \/ AllIdle /\ run_scraper(1)
    \/ NextProduct(1)
    \/ \E e \in {"search failed", "SERPAPI_KEY not configured"} : SearchRaises(1, e)
    \/ \E f \in OneQuoteFeeds : SearchReturns(1, f)
    \/ StorePrices(1)
    \/ CheckAlert(1)
    \/ \E id \in {"id", None} : SendAlert(1, id)
    \/ RecordAlert(1)
    \/ Finish(1)

SpecAdmin == Init /\ [][NextAdmin]_vars

(***************************************************************************)
(* Documents the cascade is run on                                         *)
(***************************************************************************)
MaxNoise == 1           \* ld+json script elements ahead of the one holding the product

Categories == {"electronics", "clothes", "home"}

Absent == EmptyDict.dict

\* values met under "name"
NameValues ==
    {Str(<<"A", "c", "m", "e", " ", "W", "i", "d", "g", "e", "t", " ", "P", "r", "o">>), Str(<<"W", "i", "d", "g", "e", "t", " ", "P", "r", "o", " ", "-", " ", "O", "f", "f", "i", "c", "i", "a", "l", " ", "S", "t", "o", "r", "e">>), Str(<<"W", "i", "d", "g", "e", "t", " ", "|", " ", "A", "c", "m", "e">>),
     Str(<<"-", " ", "S", "h", "o", "p", " ", "W", "i", "d", "g", "e", "t">>), Str(<<>>), Num(123 * Scale), Num(0), NoneV}

\* values met under "brand"
BrandValues ==
    {Str(<<"A", "c", "m", "e">>), Dict("name" :> Str(<<"A", "c", "m", "e">>)), Dict("@type" :> Str(<<"B", "r", "a", "n", "d">>)), Str(<<>>),
     Num(5 * Scale), Dict("name" :> Num(5 * Scale)), NoneV}

\* values met under "offers"
OfferValues ==
    {Dict("price" :> Str(<<"1", "9", ",", "9", "9">>)),
     Dict("price" :> Num(19990)),
     Dict("price" :> Str(<<"0", ".", "0", "0">>)),
     Dict(("price" :> Num(0)) @@ ("lowPrice" :> Str(<<"9", ".", "5", "0">>))),
     Dict("lowPrice" :> Num(9500)),
     List(<<Dict("price" :> Str(<<"1", "9", ".", "9", "9">>)), Dict("price" :> Str(<<"5">>))>>),
     List(<<>>),
     Dict("price" :> Str(<<"n", "/", "a">>)),
     Dict("price" :> Str(<<"1", ",", "2", "9", "9", ".", "0", "0">>)),
     Dict("price" :> List(<<Num(19990)>>)),
     Str(<<"I", "n", "S", "t", "o", "c", "k">>)}

ColorValues == {Str(<<"B", "l", "a", "c", "k">>), Str(<<>>), Num(7 * Scale), List(<<Str(<<"B", "l", "a", "c", "k">>)>>)}

\* model, sku and mpn
ModelEntries ==
    {"model" :> Str(<<"A", "W", "-", "1", "0", "0">>),
     "sku" :> Num(42 * Scale),
     ("model" :> Str(<<>>)) @@ ("sku" :> Str(<<"X", "9">>)),
     "mpn" :> Str(<<"M", "P", "1">>)}

MaterialValues ==
    {Str(<<"C", "o", "t", "t", "o", "n">>), List(<<Str(<<"C", "o", "t", "t", "o", "n">>), Str(<<"W", "o", "o", "l">>)>>), List(<<Str(<<"C", "o", "t", "t", "o", "n">>), Num(Scale)>>),
     Num(3 * Scale)}

SizeValues == {Str(<<"M">>)}

DescriptionValues == {Str(<<"A", " ", "s", "l", "e", "e", "k", " ", "b", "l", "a", "c", "k", " ", "w", "i", "d", "g", "e", "t">>), Num(Scale)}

\* nothing under the key, or one of the values
Under(key, values) == {Absent} \cup {key :> v : v \in values}

Typed == "@type" :> Str(<<"P", "r", "o", "d", "u", "c", "t">>)

\* a Product object that says name, brand and price as a shop would
PlainFields ==
    ("name" :> Str(<<"A", "c", "m", "e", " ", "W", "i", "d", "g", "e", "t", " ", "P", "r", "o">>)) @@ ("brand" :> Str(<<"A", "c", "m", "e">>))
        @@ ("offers" :> Dict("price" :> Str(<<"1", "9", ".", "9", "9">>)))

\* Product objects varying in name, brand and offers
CoreProducts ==
    {Dict(Typed @@ n @@ b @@ o) :
        n \in Under("name", NameValues), b \in Under("brand", BrandValues), o \in Under("offers", OfferValues)}

\* Product objects varying in the other keys
AttributeProducts ==
    {Dict(Typed @@ PlainFields @@ c @@ m @@ t @@ s @@ x) :
        c \in Under("color", ColorValues), m \in {Absent} \cup ModelEntries,
        t \in Under("material", MaterialValues), s \in Under("size", SizeValues),
        x \in Under("description", DescriptionValues)}

PlainProduct == Dict(Typed @@ PlainFields)

\* the same object under other types, inside a list, inside an @graph
Embeddings(product) ==
    {Json(product),
     Json(Dict(("@type" :> Str(<<"I", "n", "d", "i", "v", "i", "d", "u", "a", "l", "P", "r", "o", "d", "u", "c", "t">>)) @@ product.dict)),
     Json(Dict(("@type" :> List(<<Str(<<"P", "r", "o", "d", "u", "c", "t", "M", "o", "d", "e", "l">>), Str(<<"T", "h", "i", "n", "g">>)>>)) @@ product.dict)),
     Json(Dict(("@type" :> List(<<Str(<<"T", "h", "i", "n", "g">>), Str(<<"P", "r", "o", "d", "u", "c", "t">>)>>)) @@ product.dict)),
     Json(Dict(("@type" :> Str(<<"O", "f", "f", "e", "r">>)) @@ product.dict)),
     Json(List(<<Str(<<"x">>), product>>)),
     Json(Dict("@graph" :> List(<<Dict("@type" :> Str(<<"W", "e", "b", "S", "i", "t", "e">>)), product>>))),
     Json(Dict("@graph" :> product)),
     Json(Dict("@graph" :> Num(Scale))),
     Json(Dict("@graph" :> NoneV)),
     Json(Dict("@graph" :> Str(<<"x">>)))}

\* script elements that hold no product
NoiseScripts ==
    {Unparsable(<<>>),
     Unparsable(<<[key |-> "brand", value |-> Str(<<"Z", "e", "t", "a">>)], [key |-> "price", value |-> Str(<<"1", "2", ".", "5">>)]>>),
     Json(Dict("@type" :> Str(<<"O", "r", "g", "a", "n", "i", "z", "a", "t", "i", "o", "n">>))),
     Json(Num(Scale)),
     Json(Dict(("@type" :> Str(<<"W", "e", "b", "S", "i", "t", "e">>)) @@ ("@graph" :> List(<<>>))))}

NoiseRuns == SeqsUpTo(NoiseScripts, MaxNoise)

\* the parts of a page other than its script elements
Page(head, markup, text) == [head |-> head, markup |-> markup, text |-> text]

EmptyPage == Page(Absent, Absent, <<>>)

MetaPage ==
    Page(("og_title" :> <<"G", "i", "z", "m", "o", " ", "M", "a", "x", " ", "|", " ", "A", "c", "m", "e", " ", "S", "h", "o", "p">>) @@ ("title" :> <<"G", "i", "z", "m", "o", " ", "-", " ", "B", "u", "y", " ", "o", "n", "l", "i", "n", "e">>)
             @@ ("price" :> <<"2", "4", ",", "5", "0">>) @@ ("brand" :> <<"B", "o", "l", "t">>) @@ ("color" :> <<"B", "l", "u", "e">>),
         Absent, <<>>)

FallbackPage ==
    Page("title" :> <<" ", "G", "i", "z", "m", "o", " ">>,
         ("data-brand" :> <<"B", "o", "l", "t">>) @@ ("data-price" :> <<"2", "9", ".", "9", "9">>) @@ ("data-color" :> <<"R", "e", "d">>)
             @@ ("price-class" :> <<"E", "U", "R", " ", "3", "1", ",", "5", "0">>),
         <<"M", "o", "d", "e", "l", ":", " ", "G", "Z", "-", "7", " ", "C", "o", "l", "o", "u", "r", ":", " ", "D", "a", "r", "k", " ", "G", "r", "e", "e", "n", ",", " ", "1", "2", "8", " ", "g", "b", ".", " ", "M", "a", "t", "e", "r", "i", "a", "l", ":", " ", "8", "0", "%", " ", "C", "o", "t", "t", "o", "n", ",", " ", "2", "0", "%", " ", "W", "o", "o", "l", ".">>)

LabelPage ==
    Page("twitter_title" :> <<"G", "i", "z", "m", "o", ":", " ", "S", "t", "o", "r", "e">>,
         ("itemprop-brand" :> <<"B">>) @@ ("data-price" :> <<"0", ".", "0", "1">>) @@ ("data-color" :> <<"R", "e", "d", " ", "5">>)
             @@ ("price-class" :> <<"f", "r", "o", "m">>),
         <<"C", "o", "l", "o", "r", ":", " ", "T", "e", "a", "l", ".", " ", "M", "a", "t", "e", "r", "i", "a", "l", ":", " ", "S", "i", "l", "k", ".", " ", "M", "o", "d", "e", "l", " ", "#", "Q", " ", "6", "4", "T", "B">>)

Pages == {EmptyPage, MetaPage, FallbackPage, LabelPage}

\* pages a queue or a bot check answers with, and pages that only look so
BlockTexts ==
    {<<"P", "l", "e", "a", "s", "e", " ", "w", "a", "i", "t", " ", "w", "h", "i", "l", "e", " ", "w", "e", " ", "c", "h", "e", "c", "k">>, <<"Y", "o", "u", " ", "a", "r", "e", " ", "i", "n", " ", "t", "h", "e", " ", "Q", "U", "E", "U", "E">>, <<"C", "h", "e", "c", "k", "i", "n", "g", " ", "y", "o", "u", "r", " ", "b", "r", "o", "w", "s", "e", "r">>,
     <<"H", "i", "g", "h", " ", "T", "r", "a", "f", "f", "i", "c", ":", " ", "w", "e", " ", "s", "h", "o", "u", "l", "d", " ", "b", "e", " ", "u", "p", " ", "a", "n", "d", " ", "m", "o", "v", "i", "n", "g", " ", "s", "h", "o", "r", "t", "l", "y">>}

NearBlockTexts == {<<"P", "l", "e", "a", "s", "e", " ", "d", "o", " ", "n", "o", "t", " ", "w", "a", "i", "t">>, <<"C", "h", "e", "c", "k", "i", "n", "g", " ", "y", "o", "u", "r", " ", "o", "r", "d", "e", "r">>}

WithText(page, text) == [page EXCEPT !.text = text]
WithTitle(page, text) == [page EXCEPT !.head = ("title" :> text) @@ page.head]
WithScripts(page, scripts) == [page EXCEPT !.scripts = scripts]

Bare(page) == [head |-> page.head, scripts |-> <<>>, markup |-> page.markup, text |-> page.text]

BlockPages ==
    {WithText(Bare(p), t) : p \in {EmptyPage, MetaPage}, t \in BlockTexts \cup NearBlockTexts}
        \cup {WithTitle(Bare(FallbackPage), t) : t \in BlockTexts}

\* a product whose own strings hold a block phrase
QueueProduct == Dict(Typed @@ PlainFields @@ ("description" :> Str(<<"S", "k", "i", "p", " ", "t", "h", "e", " ", "q", "u", "e", "u", "e", ",", " ", "i", "n", " ", "b", "l", "a", "c", "k">>)))

\* Product objects whose name, brand, model and color overlap
QueryProducts ==
    {Dict(Typed @@ n @@ b @@ m @@ c) :
        n \in {"name" :> Str(<<"W", "i", "d", "g", "e", "t", " ", "P", "r", "o", " ", "b", "y", " ", "A", "c", "m", "e">>), "name" :> Str(<<"A", "C", "M", "E", " ", "W", "i", "d", "g", "e", "t", " ", "a", "c", "m", "e", " ", "P", "r", "o">>),
               "name" :> Str(<<"A", "c", "m", "e">>), "name" :> Str(<<"W", "i", "d", "g", "e", "t", " ", " ", "P", "r", "o">>)},
        b \in Under("brand", {Str(<<"A", "c", "m", "e">>), Str(<<"a", "c", "m", "e">>)}),
        m \in Under("model", {Str(<<"P", "r", "o">>), Str(<<"A", "W", "-", "1", "0", "0">>)}),
        c \in Under("color", {Str(<<"p", "r", "o">>), Str(<<"S", "p", "a", "c", "e", " ", "G", "r", "a", "y", " ", "2">>), Str(<<"B", "l", "a", "c", "k">>)})}

\* n times the character c
Repeat(c, n) == [i \in 1..n |-> c]

\* brands and prices at the edges of what the regex patterns accept
EdgeBrands == {<<"B">>, <<"B", "o">>, Repeat("b", 49), Repeat("b", 50), Repeat("b", 51)}

EdgePrices == {<<"0", ".", "0", "1">>, <<"0", ".", "0", "2">>, <<"9", "9", "9", "9", "9", ".", "9", "9">>, <<"1", "0", "0", "0", "0", "0">>}

EdgePages ==
    {Page(Absent, ("data-brand" :> b) @@ ("data-price" :> p), <<>>) : b \in EdgeBrands, p \in EdgePrices}
        \cup {Page(Absent,
                   ("itemprop-brand" :> b) @@ ("data-brand" :> <<"B", "o", "l", "t">>) @@ ("data-price" :> p)
                       @@ ("price-class" :> <<"E", "U", "R", " ", "3", "1", ",", "5", "0">>),
                   <<>>) : b \in EdgeBrands, p \in EdgePrices}

\* a garment's page: a size label and a composition in the text
SizePage == Page("title" :> <<"S", "h", "i", "r", "t">>, Absent, <<"S", "i", "z", "e", ":", " ", "M", ".", " ", "8", "0", "%", " ", "C", "o", "t", "t", "o", "n">>)

\* script elements met on a garment's page: none, a size key outside any
\* Product object, a Product object without a size, one with a size
SizeScripts ==
    {<<>>,
     <<Unparsable(<<[key |-> "size", value |-> Str(<<"L">>)]>>)>>,
     <<Json(PlainProduct)>>,
     <<Json(Dict(Typed @@ PlainFields @@ ("size" :> Str(<<"X", "L">>))))>>}

Documents ==
    {WithScripts(Bare(p), <<Json(product)>>) : p \in {EmptyPage}, product \in QueryProducts}
        \cup {WithScripts(Bare(p), scripts) : p \in {SizePage, EmptyPage}, scripts \in SizeScripts}
        \cup {Bare(p) : p \in EdgePages}
        \cup {WithScripts(Bare(p), <<Json(product)>>) : p \in Pages, product \in CoreProducts}
        \cup {WithScripts(Bare(p), <<Json(product)>>) : p \in {EmptyPage, FallbackPage}, product \in AttributeProducts}
        \cup {WithScripts(Bare(p), noise \o <<s>>) :
                 p \in {EmptyPage, MetaPage}, noise \in NoiseRuns, s \in Embeddings(PlainProduct)}
        \cup {WithScripts(Bare(p), noise) : p \in Pages, noise \in NoiseRuns}
        \cup {WithScripts(p, scripts) :
                 p \in BlockPages, scripts \in {<<>>, <<Json(PlainProduct)>>, <<Unparsable(<<>>), Json(PlainProduct)>>}}
        \cup {WithScripts(Bare(p), <<Json(QueueProduct)>>) : p \in {EmptyPage, MetaPage}}


(***************************************************************************)
(* Price strings of shopping results                                       *)
(***************************************************************************)
PricePrefixes == {<<>>, <<"EURO SIGN">>, <<"$">>, <<"E", "U", "R", " ">>, <<"U", "S", "D">>, <<"H", "U", "F", " ">>}

PriceBodies ==
    {<<"1", ",", "2", "3", "4", ".", "5", "6">>, <<"1", ".", "2", "3", "4", ",", "5", "6">>, <<"2", "9", " ", "9", "9", "9">>, <<"9", "9", ",", "9", "9">>, <<"9", "9", ".", "9", "9">>, <<"1", "2", "9", "9">>, <<"0">>, <<".", "5">>, <<>>,
     <<"n", "/", "a">>, <<"1", "2", ".">>, <<"7", " ", "5">>}

PriceSuffixes == {<<>>, <<" ", "F", "t">>, <<" ", "E", "U", "R">>, <<" ", "EURO SIGN">>, <<" ", "e", "a", "c", "h">>}

PriceStrings == {a \o b \o c : a \in PricePrefixes, b \in PriceBodies, c \in PriceSuffixes}

(***************************************************************************)
(* SpecPrice: one call of extract_price                                    *)
(***************************************************************************)
InitPrice ==
    /\ settings = [serpapi_key |-> FALSE, resend_api_key |-> FALSE]
    /\ products = [p \in {} |-> NoProduct]
    /\ price_history = {}
    /\ alerts_sent = <<>>
    /\ now = 0
    /\ emails = {}
    /\ last_delivery = [p \in ProductIds |-> "never"]
    /\ rq = [r \in Reqs |-> IdleFrame]
    /\ html = NoDocument
    /\ category = "electronics"
    /\ data = ScrapedProductData
    /\ xpc = "idle"
    /\ price_string \in PriceStrings
    /\ parsed = NotCalled
    /\ shopping_item = NoItem
    /\ quoted = NotCalled

ExtractPrice ==
    /\ parsed = NotCalled
    /\ parsed' = extract_price(price_string)
    /\ UNCHANGED <<evars, xvars, price_string, shopping_item, quoted>>

NextPrice == ExtractPrice

SpecPrice == InitPrice /\ [][NextPrice]_vars

(***************************************************************************)
(* SpecFeed: one result of the search feed goes through the loop of        *)
(* search_google_shopping                                                  *)
(***************************************************************************)
\* values met under "price": the key missing, or a string
ItemPrices == {NoneV} \cup {Str(s) : s \in PriceStrings}

\* values met under "extracted_price": the key missing, 0, a price
ItemExtractedPrices == {NoneV, Num(0), Num(19990)}

InitFeed ==
    /\ settings = [serpapi_key |-> TRUE, resend_api_key |-> FALSE]
    /\ products = [p \in {} |-> NoProduct]
    /\ price_history = {}
    /\ alerts_sent = <<>>
    /\ now = 0
    /\ emails = {}
    /\ last_delivery = [p \in ProductIds |-> "never"]
    /\ rq = [r \in Reqs |-> IdleFrame]
    /\ html = NoDocument
    /\ category = "electronics"
    /\ data = ScrapedProductData
    /\ xpc = "idle"
    /\ price_string = <<>>
    /\ parsed = NotCalled
    /\ shopping_item \in [price : ItemPrices, extracted_price : ItemExtractedPrices]
    /\ quoted = NotCalled

\* one turn of the loop at scraper.py 112-132
ReadItem ==
    /\ quoted = NotCalled
    /\ quoted' = item_price(shopping_item)
    /\ UNCHANGED <<evars, xvars, price_string, parsed, shopping_item>>

NextFeed == ReadItem

SpecFeed == InitFeed /\ [][NextFeed]_vars

(***************************************************************************)
(* extract_product_data (products.py 248-446), one step per strategy       *)
(***************************************************************************)
InitExtract ==
    /\ settings = [serpapi_key |-> FALSE, resend_api_key |-> FALSE]
    /\ products = [p \in {} |-> NoProduct]
    /\ price_history = {}
    /\ alerts_sent = <<>>
    /\ now = 0
    /\ emails = {}
    /\ last_delivery = [p \in ProductIds |-> "never"]
    /\ rq = [r \in Reqs |-> IdleFrame]
    /\ html \in Documents
    /\ category \in Categories
    /\ data = ScrapedProductData
    /\ xpc = "guard"
    /\ price_string = <<>>
    /\ parsed = NotCalled
    /\ shopping_item = NoItem
    /\ quoted = NotCalled

\* lines 250-257
BlockPageGuard ==
    /\ xpc = "guard"
    /\ xpc' = IF IsBlocked(html) THEN "returned" ELSE "json_ld"
    /\ UNCHANGED <<evars, pvars, html, category, data>>

Step(from, to, outcome) ==
    /\ xpc = from
    /\ xpc' = IF outcome.raised THEN "raised" ELSE to
    /\ data' = outcome.data
    /\ UNCHANGED <<evars, pvars, html, category>>

\* lines 259-318
JsonLdStage == Step("json_ld", "meta", json_ld_stage(html, data))

\* lines 320-338
MetaStage == Step("meta", "regex", Returned(meta_stage(html, data)))

\* lines 340-372
RegexStage == Step("regex", "category", Returned(regex_stage(html, data)))

\* lines 374-409
CategoryStage == Step("category", "color", Returned(category_stage(html, category, data)))

\* lines 411-424
ColorStage == Step("color", "query", Returned(color_stage(html, data)))

\* lines 426-446
QueryStage == Step("query", "returned", query_stage(data))

NextExtract ==
    \/ BlockPageGuard
    \/ JsonLdStage
    \/ MetaStage
    \/ RegexStage
    \/ CategoryStage
    \/ ColorStage
    \/ QueryStage

SpecExtract == InitExtract /\ [][NextExtract]_vars

(***************************************************************************)
(* Properties of the decision engine                                       *)
(***************************************************************************)
Last(seq) == seq[Len(seq)]

\* in this step check_and_send_alert of handler r returns b to its caller
Returns(r, b) ==
    /\ rq[r].pc \in {"check", "send", "record"}
    /\ rq'[r].results # rq[r].results
    /\ Last(rq'[r].results).alert_sent = PyBool(b)

\* no alert of product p is on record with sent_at less than `hours` before now
NoAlertWithin(p, hours) ==
    \A i \in DOMAIN alerts_sent :
        alerts_sent[i].product_id = p => now - alerts_sent[i].sent_at >= hours

BelowTarget(f) == f.lowest.price < f.product.target_price

\* C1: a notification is delivered, and check_and_send_alert returns True,
\* only when the evaluated lowest price is strictly below the product's
\* target price and no alert of that product was recorded in the preceding
\* 24 hours; a lowest price equal to the target never notifies.
C1_NotifyOnlyBelowTargetOutsideCooldown ==
    [][\A r \in Reqs :
          ((emails' # emails /\ rq[r].pc = "send") \/ Returns(r, TRUE))
              => /\ BelowTarget(rq[r])
                 /\ rq[r].lowest.price # rq[r].product.target_price
                 /\ NoAlertWithin(rq[r].product.id, 24)]_vars

C1_Witness ==
    \E r \in Reqs :
        /\ rq[r].pc = "done"
        /\ rq[r].kind = "scrape_product"
        /\ rq[r].results[1].alert_sent = "True"
        /\ emails # {}

\* C2: over sequentially executed evaluation cycles of one product the user
\* is notified at most once per cooldown window: two recorded alerts of the
\* same product, and two delivered messages, are at least 24 hours apart,
\* and an evaluation made less than 24 hours after a recorded alert returns
\* False without sending.
AlertsSpaced ==
    \A i, j \in DOMAIN alerts_sent :
        (i < j /\ alerts_sent[i].product_id = alerts_sent[j].product_id)
            => alerts_sent[j].sent_at - alerts_sent[i].sent_at >= 24

EmailsSpaced ==
    \A e1, e2 \in emails :
        (e1.product_id = e2.product_id /\ e1.at < e2.at) => e2.at - e1.at >= 24

C2_OncePerCooldownWindow ==
    /\ [](AlertsSpaced /\ EmailsSpaced)
    /\ [][\A r \in Reqs :
             (rq[r].pc = "check" /\ rq'[r] # rq[r]
              /\ ~NoAlertWithin(rq[r].product.id, 24))
                 => Returns(r, FALSE) /\ emails' = emails
                    /\ alerts_sent' = alerts_sent]_vars

C2_Witness ==
    \E r \in Reqs :
        /\ Len(alerts_sent) = 2
        /\ alerts_sent[1].product_id = alerts_sent[2].product_id
        /\ rq[r].pc = "done"
        /\ rq[r].product.id = alerts_sent[2].product_id
        /\ BelowTarget(rq[r])
        /\ Last(rq[r].results).alert_sent = "False"
        /\ ~NoAlertWithin(rq[r].product.id, 24)

\* in this step the delivery attempted by handler r comes back without an id
DeliveryFails(r) ==
    /\ rq[r].pc = "send"
    /\ rq'[r] # rq[r]
    /\ settings.resend_api_key
    /\ emails' = emails

\* C3: a failed delivery does not advance the cooldown window: when the
\* notification collaborator returns no identifier, check_and_send_alert
\* returns False and alert history is unchanged, and an evaluation of that
\* product with the price still below target and no alert on record in the
\* last 24 hours goes on to attempt delivery again.
C3_FailedDeliveryKeepsWindow ==
    [][\A r \in Reqs :
          /\ DeliveryFails(r) => Returns(r, FALSE) /\ alerts_sent' = alerts_sent
          /\ (rq[r].pc = "check" /\ rq'[r] # rq[r] /\ BelowTarget(rq[r])
              /\ last_delivery[rq[r].product.id] = "failed"
              /\ NoAlertWithin(rq[r].product.id, 24))
                 => rq'[r].pc = "send"]_vars

C3_Witness ==
    \E r \in Reqs :
        /\ rq[r].pc = "send"
        /\ last_delivery[rq[r].product.id] = "failed"
        /\ BelowTarget(rq[r])

\* the most recent alert of product p
HasAlert(p) == \E i \in DOMAIN alerts_sent : alerts_sent[i].product_id = p

LastSentAt(p) ==
    LET at == {alerts_sent[i].sent_at : i \in {k \in DOMAIN alerts_sent :
                                                alerts_sent[k].product_id = p}}
    IN  CHOOSE t \in at : \A u \in at : u <= t

\* C4: the cooldown is a sliding window keyed off the most recent alert and
\* read against the current time: with the best price below target the gate
\* refuses iff a most recent alert exists and now - sent_at < 24 hours, so
\* it allows with no prior alert and with an alert exactly 24 hours old.
C4_SlidingWindowGate ==
    [][\A r \in Reqs :
          (rq[r].pc = "check" /\ rq'[r] # rq[r] /\ BelowTarget(rq[r]))
              => LET p == rq[r].product.id
                     refuse == HasAlert(p) /\ now - LastSentAt(p) < 24
                 IN  /\ refuse => Returns(r, FALSE)
                     /\ ~refuse => rq'[r].pc = "send"]_vars

C4_Witness ==
    \E r \in Reqs :
        /\ rq[r].pc = "send"
        /\ HasAlert(rq[r].product.id)
        /\ now - LastSentAt(rq[r].product.id) = 24

\* quote q is a cheapest quote of the batch and the first of the cheapest
FirstCheapest(prices, q) ==
    \E i \in DOMAIN prices :
        /\ prices[i] = q
        /\ \A j \in DOMAIN prices : prices[j].price >= q.price
        /\ \A j \in DOMAIN prices : j < i => prices[j].price > q.price

\* C5: the quote chosen for alert evaluation is a quote of the batch with the
\* minimum price, the first in batch order among equal minima; an empty
\* batch selects nothing and leads to no alert evaluation; the selection
\* leaves the batch as it was.
C5_FirstCheapestQuoteSelected ==
    /\ [](\A r \in Reqs :
            /\ rq[r].lowest # NoQuote => FirstCheapest(rq[r].prices, rq[r].lowest)
            /\ rq[r].pc \in {"check", "send", "record"}
                  => rq[r].prices # <<>> /\ rq[r].lowest # NoQuote
            /\ rq[r].prices = <<>>
                  => rq[r].lowest = NoQuote /\ rq[r].pc \notin {"store", "check", "send", "record"})
    /\ [][\A r \in Reqs : rq[r].pc = "store" => rq'[r].prices = rq[r].prices]_vars

C5_Witness ==
    \E r \in Reqs :
        /\ rq[r].pc = "check"
        /\ Len(rq[r].prices) = 2
        /\ rq[r].prices[1].price = rq[r].prices[2].price
        /\ rq[r].prices[1].retailer # rq[r].prices[2].retailer
        /\ rq[r].lowest = rq[r].prices[1]

\* every reordering of a batch
Reorderings(prices) ==
    LET n == Len(prices)
        perms == {f \in [1..n -> 1..n] : \A i, j \in 1..n : f[i] = f[j] => i = j}
    IN  {[i \in 1..n |-> prices[f[i]]] : f \in perms}

UniqueMinimum(prices) ==
    \E i \in DOMAIN prices : \A j \in DOMAIN prices : j # i => prices[j].price > prices[i].price

\* C6: the selection does not depend on the order of the batch: for every
\* reordering of the batch the selected price is the price the handler
\* selected, and so is the retailer when a single quote attains the minimum.
C6_SelectionOrderInvariant ==
    \A r \in Reqs :
        rq[r].lowest # NoQuote =>
            \A q \in Reorderings(rq[r].prices) :
                /\ LowestQuote(q).price = rq[r].lowest.price
                /\ UniqueMinimum(rq[r].prices)
                      => LowestQuote(q).retailer = rq[r].lowest.retailer

C6_Witness ==
    \E r \in Reqs :
        /\ rq[r].pc = "check"
        /\ Len(rq[r].prices) = 2
        /\ rq[r].prices[1].price > rq[r].prices[2].price
        /\ rq[r].lowest = rq[r].prices[2]


(***************************************************************************)
(* Claims about the batch handlers, checked under SpecBatch                *)
(***************************************************************************)
IsBatch(f) == f.kind \in {"scrape_all_products", "run_scraper"}

\* the products a batch run iterates over, in order
Listed == get_all_products(products, TRUE)

\* the loop over the products was entered
LoopEntered(f) ==
    /\ IsBatch(f)
    /\ f.pc # "idle"
    /\ f.kind = "run_scraper" => (Listed # <<>> /\ settings.serpapi_key)

InProgress(f) == f.pc \in {"scrape", "store", "check", "send", "record"}

\* a step in which processing the current product raises
Raises ==
    \/ \E e \in {"search failed", "SERPAPI_KEY not configured"} : SearchRaises(1, e)
    \/ \E k \in 0..MaxQuotes : StoreRaises(1, k)
    \/ rq[1].pc = "send" /\ ~settings.resend_api_key /\ SendAlert(1, None)

\* every listed product is accounted for: reported, in progress or still to do
OnePerProduct ==
    LET f == rq[1]
    IN  LoopEntered(f) =>
            /\ Len(f.results) + Len(f.todo) + (IF InProgress(f) THEN 1 ELSE 0) = Len(Listed)
            /\ \A i \in DOMAIN f.results : f.results[i].product_id = Listed[i].id
            /\ f.pc = "done" => Len(f.results) = Len(Listed)

\* C13: in a batch run (scrape_all_products, run_scraper) a failure while one
\* product is processed is recorded as that product's error entry and the
\* loop goes on with the products that remain, so that the finished run
\* reports one entry per active product, in listing order.
C13_BatchIsolation ==
    /\ [](OnePerProduct)
    /\ [][(IsBatch(rq[1]) /\ Raises) =>
            /\ rq'[1].pc = "next"
            /\ rq'[1].todo = rq[1].todo
            /\ rq'[1].results = Append(rq[1].results, Last(rq'[1].results))
            /\ Last(rq'[1].results).product_id = rq[1].product.id
            /\ Last(rq'[1].results).error # None]_vars

\* a finished batch whose first product failed and whose second was scraped
C13_Witness ==
    /\ rq[1].kind = "scrape_all_products"
    /\ rq[1].pc = "done"
    /\ Len(rq[1].results) = 2
    /\ rq[1].results[1].error # None
    /\ rq[1].results[2].error = None
    /\ rq[1].results[2].prices_found > 0

\* an entry that reports a search without results
NoResultsEntry(e) ==
    /\ e.error = None
    /\ e.prices_found = 0
    /\ e.message = "No prices found" \/ e.alert_sent = "False"

\* C14: without a search key no handler reports a search without results:
\* the missing key is an error of its own.
C14_MissingKeyIsNotNoResults ==
    ~settings.serpapi_key =>
        \A i \in DOMAIN rq[1].results : ~NoResultsEntry(rq[1].results[i])

\* a finished batch without a key: its entries are errors
C14_Witness ==
    /\ ~settings.serpapi_key
    /\ rq[1].kind = "scrape_all_products"
    /\ rq[1].pc = "done"
    /\ rq[1].results # <<>>
    /\ \A i \in DOMAIN rq[1].results : rq[1].results[i].error = "SERPAPI_KEY not configured"

\* C15: a search that returns no quote ends the product's scrape
\* successfully: nothing is stored, no alert is evaluated or sent, and the
\* product's entry reports no prices and no error.
C15_NoQuotesIsNoOp ==
    [][\A feed \in SingleSourceFeeds :
          (search_google_shopping(feed) = <<>> /\ SearchReturns(1, feed)) =>
            /\ price_history' = price_history
            /\ alerts_sent' = alerts_sent
            /\ emails' = emails
            /\ rq'[1].pc \in {"done", "next"}
            /\ rq'[1].stats = rq[1].stats
            /\ Len(rq'[1].results) = (IF IsBatch(rq[1]) THEN Len(rq[1].results) ELSE 0) + 1
            /\ Last(rq'[1].results).product_id = rq[1].product.id
            /\ NoResultsEntry(Last(rq'[1].results))]_vars

\* a product's scrape ended without a quote, nothing stored
C15_Witness ==
    /\ rq[1].pc \in {"done", "next"}
    /\ rq[1].results # <<>>
    /\ NoResultsEntry(Last(rq[1].results))
    /\ rq[1].prices = <<>>
    /\ price_history = {}
    /\ alerts_sent = <<>>

\* C16: the quotes of one query hold one quote per retailer.
C16_OneQuotePerRetailer ==
    rq[1].pc \in {"store", "check"} =>
        \A i, j \in DOMAIN rq[1].prices :
            i # j => rq[1].prices[i].retailer # rq[1].prices[j].retailer

\* the price-history row a quote of product p is stored as
HistoryRow(p, quote) == [product_id |-> p, retailer |-> quote.retailer, price |-> quote.price]

\* every alert record has a price-history row of its product, price and
\* retailer
AlertsBacked ==
    \A i \in DOMAIN alerts_sent : HistoryRow(alerts_sent[i].product_id, alerts_sent[i]) \in price_history

\* while the alert of a batch is evaluated, sent and recorded the whole
\* batch is in price history
StoredBeforeEvaluated ==
    \A r \in Reqs :
        rq[r].pc \in {"check", "send", "record"} =>
            \A k \in DOMAIN rq[r].prices : HistoryRow(rq[r].product.id, rq[r].prices[k]) \in price_history

\* C24: in every scrape cycle all quotes of the batch are appended to price
\* history before the alert is evaluated, so each alert record has a
\* price-history row for the same product with that price and retailer, and
\* the recorded price is the minimum price of the batch that triggered it.
C24_AlertsBackedByHistory ==
    /\ [](AlertsBacked /\ StoredBeforeEvaluated)
    /\ [][\A r \in Reqs :
             (rq[r].pc = "record" /\ alerts_sent' # alerts_sent) =>
                LET alert == Last(alerts_sent')
                    batch == rq[r].prices
                IN  /\ alerts_sent' = Append(alerts_sent, alert)
                    /\ alert.product_id = rq[r].product.id
                    /\ \E k \in DOMAIN batch :
                          batch[k].price = alert.price /\ batch[k].retailer = alert.retailer
                    /\ \A k \in DOMAIN batch : alert.price <= batch[k].price]_vars

\* an alert was recorded for the cheaper of two stored quotes
C24_Witness ==
    /\ Len(alerts_sent) = 1
    /\ HistoryRow(alerts_sent[1].product_id, alerts_sent[1]) \in price_history
    /\ \E row \in price_history :
          row.product_id = alerts_sent[1].product_id /\ row.price > alerts_sent[1].price


(***************************************************************************)
(* Claims about handlers that run at once, checked under SpecConcurrent    *)
(***************************************************************************)
\* handler r reported an alert for product p
ReportedAlert(r, p) ==
    \E i \in DOMAIN rq[r].results :
        rq[r].results[i].product_id = p /\ rq[r].results[i].alert_sent = "True"

\* C23: when two evaluation cycles of one product interleave, the price
\* below target and no alert in the last 24 hours, at most one of them
\* sends a notification and at most one alert record is added within the
\* cooldown window.
C23_ConcurrentEvaluationsSafe ==
    \A p \in DOMAIN products :
        /\ Cardinality({i \in DOMAIN alerts_sent : alerts_sent[i].product_id = p}) <= 1
        /\ Cardinality({r \in Reqs : ReportedAlert(r, p)}) <= 1


(***************************************************************************)
(* Claims about batch runs among create, toggle and delete, checked under  *)
(* SpecAdmin                                                               *)
(***************************************************************************)
\* the products whose is_active flag is set
ActiveIds == {p \in DOMAIN products : products[p].is_active}

\* every row a batch run holds, to do or in progress, was listed with the
\* flag set
ListedActive(f) ==
    IsBatch(f) =>
        /\ \A i \in DOMAIN f.todo : f.todo[i].is_active
        /\ InProgress(f) => f.product.is_active

\* the rows of product p in the tables a scrape writes
RowsOf(p, history, alerts, mails) ==
    <<{row \in history : row.product_id = p},
      SelectSeq(alerts, LAMBDA a : a.product_id = p),
      {m \in mails : m.product_id = p}>>

\* C25: after any sequence of create, toggle and delete operations a
\* scrape-all request or cron run lists exactly the products whose
\* is_active flag is set at that time, and scrapes, stores price records
\* for and sends or records alerts for listed products only: a product
\* that is not active when the batch lists it gets no price record and no
\* alert from that run.
C25_BatchTouchesActiveOnly ==
    /\ [](ListedActive(rq[1]))
    /\ [][(rq[1].pc = "idle" /\ IsBatch(rq'[1])) =>
             /\ {rq'[1].todo[i].id : i \in DOMAIN rq'[1].todo} \subseteq ActiveIds
             /\ rq'[1].pc = "next" => Len(rq'[1].todo) = Cardinality(ActiveIds)]_vars
    /\ [][IsBatch(rq[1]) =>
             \A p \in ProductIds :
                 RowsOf(p, price_history', alerts_sent', emails') # RowsOf(p, price_history, alerts_sent, emails)
                     => (InProgress(rq[1]) /\ p = rq[1].product.id /\ rq[1].product.is_active)]_vars

\* a finished batch run that listed product 1 alone while product 2, created
\* and then deactivated, went untouched
C25_Witness ==
    /\ IsBatch(rq[1])
    /\ rq[1].pc = "done"
    /\ Len(rq[1].results) = 1
    /\ rq[1].results[1].product_id = 1
    /\ rq[1].results[1].prices_found = 1
    /\ 2 \in DOMAIN products
    /\ ~products[2].is_active
    /\ RowsOf(2, price_history, alerts_sent, emails) = <<{}, <<>>, {}>>
    /\ RowsOf(1, price_history, alerts_sent, emails)[1] # {}

(***************************************************************************)
(* Properties of the extraction pipeline                                   *)
(***************************************************************************)
\* the Product object the JSON-LD strategy reads
ProductHit == find_product_in_json_ld(extract_json_ld(html.scripts))

BlockPhrases == {<<"c", "h", "e", "c", "k", "i", "n", "g", " ", "y", "o", "u", "r", " ", "b", "r", "o", "w", "s", "e", "r">>, <<"p", "l", "e", "a", "s", "e", " ", "w", "a", "i", "t">>, <<"q", "u", "e", "u", "e">>}

\* the page spells out a block phrase, in whatever case
ContainsBlockPhrase(page) ==
    \E s \in PageStrings(page), phrase \in BlockPhrases : \E i \in DOMAIN s : MatchAtI(s, i, phrase)

\* C7: block-page guard: for a document that contains, in whatever case, one
\* of the block phrases "checking your browser", "please wait", "queue",
\* extract_product_data runs no strategy and returns a record in which every
\* field, search_query included, is unset, whatever JSON-LD, meta tags or
\* other content the document carries.
C7_BlockPageYieldsEmptyRecord ==
    ContainsBlockPhrase(html) =>
        /\ xpc \in {"guard", "returned"}
        /\ \A f \in Fields : data[f] = NoneV

C7_Witness ==
    /\ xpc = "returned"
    /\ ContainsBlockPhrase(html)
    /\ ~IsBlocked_CaseSensitive(html)
    /\ ProductHit.found
    /\ DOMAIN html.head # {}

ValueFields == {"name", "brand", "price", "color", "model", "material", "size", "storage"}

\* a field is non-empty when it holds a value Python counts as true: None,
\* the empty string, an empty list or dict and a price of 0.0 are empty
NonEmpty(v) == v # NoneV /\ v # Str(<<>>) /\ v # Num(0) /\ v # List(<<>>) /\ v # EmptyDict

\* what the JSON-LD strategy alone leaves in the record
AfterJsonLd == json_ld_stage(html, ScrapedProductData).data

C9_NeverFails == xpc # "raised"

\* a value json.loads returns for a decimal number, or a str spelling one
\* with a point or a comma
IsPrice(v) == IsNum(v) \/ (IsStr(v) /\ IsDecimal(replace(v.str, ",", ".")))

IsText(v) == IsStr(v) /\ v.str # <<>>

FirstOfferOf(product) ==
    IF IsList(product.dict["offers"]) THEN product.dict["offers"].list[1] ELSE product.dict["offers"]

\* offers.price, else offers.lowPrice
EncodedPrice(product) ==
    IF Has(FirstOfferOf(product), "price") THEN FirstOfferOf(product).dict["price"]
    ELSE FirstOfferOf(product).dict["lowPrice"]

EncodedBrand(product) ==
    IF IsDict(product.dict["brand"]) THEN product.dict["brand"].dict["name"] ELSE product.dict["brand"]

\* a Product object that says what it says as schema.org has it: a name that
\* is more than a store suffix, a brand as text or as an object with a name,
\* an offer (or offers, the first one counting) with a decimal price, and
\* text under every other key
WellFormed(product) ==
    /\ Has(product, "name") /\ IsText(product.dict["name"]) /\ CleanName(product.dict["name"].str) # <<>>
    /\ Has(product, "brand")
    /\ \/ IsText(product.dict["brand"])
       \/ IsDict(product.dict["brand"]) /\ Has(product.dict["brand"], "name") /\ IsText(product.dict["brand"].dict["name"])
    /\ Has(product, "offers")
    /\ \/ IsDict(product.dict["offers"])
       \/ IsList(product.dict["offers"]) /\ product.dict["offers"].list # <<>>
    /\ IsDict(FirstOfferOf(product))
    /\ Has(FirstOfferOf(product), "price") \/ Has(FirstOfferOf(product), "lowPrice")
    /\ IsPrice(EncodedPrice(product))
    /\ \A k \in DOMAIN product.dict \cap {"color", "model", "sku", "mpn", "size", "description"} : IsStr(product.dict[k])
    /\ Has(product, "material") =>
          \/ IsStr(product.dict["material"])
          \/ IsList(product.dict["material"]) /\ \A i \in DOMAIN product.dict["material"].list : IsStr(product.dict["material"].list[i])

\* C10: for every document not caught by the block-page guard whose first
\* JSON-LD Product object is well formed, the returned record's name is the
\* encoded name after store-suffix stripping, its brand the encoded brand
\* (the object's name, or the plain string) and its price the encoded offers
\* price (price, else lowPrice) with a decimal comma read as a point.
C10_WellFormedProductRecovered ==
    (xpc = "returned" /\ ~IsBlocked(html) /\ ProductHit.found /\ WellFormed(ProductHit.item)) =>
        /\ data.name = Str(CleanName(ProductHit.item.dict["name"].str))
        /\ data.brand = EncodedBrand(ProductHit.item)
        /\ data.price = float(replace(str(EncodedPrice(ProductHit.item)), ",", "."))

\* the brand lengths C19 has the regex strategy accept
BrandLengthStated(brand) == 2 <= Len(brand) /\ Len(brand) <= 50

\* the prices C19 has the regex strategy accept
PriceStated(match) ==
    /\ ~IsError(PriceOf(Str(match)))
    /\ Scale \div 100 < PriceOf(Str(match)).num
    /\ PriceOf(Str(match)).num < 100000 * Scale

\* C19: the regex strategy accepts a price only if it lies strictly between
\* 0.01 and 100000 and a brand iff its length is in [2, 50]; a rejected match
\* leaves the field unset or lets the next pattern try: the strategy sets an
\* unset brand (price) to the first match, in pattern order, that is
\* accepted, and changes nothing else.
C19_RegexBounds ==
    [][xpc = "regex" =>
          LET brands == BrandMatches(html)
              b == FirstAccepted(brands, BrandLengthStated)
              prices == PriceMatches(html)
              p == FirstAccepted(prices, PriceStated)
          IN  /\ data'.brand = (IF Unset(data.brand) /\ b # 0 THEN Str(strip(brands[b])) ELSE data.brand)
              /\ data'.price = (IF Unset(data.price) /\ p # 0 THEN PriceOf(Str(prices[p])) ELSE data.price)
              /\ \A f \in Fields \ {"brand", "price"} : data'[f] = data[f]]_vars

\* C20: in every record extract_product_data returns a populated color is
\* at most 40 characters long and holds no digit, whichever strategy
\* populated it.
C20_ColorBound ==
    (xpc = "returned" /\ IsStr(data.color) /\ data.color.str # <<>>) =>
        /\ Len(data.color.str) <= 40
        /\ \A i \in DOMAIN data.color.str : ~IsDigit(data.color.str[i])

SizeLetters == {<<"S">>, <<"M">>, <<"L">>, <<"X", "L">>}

\* the document spells a size: a "size" key with a non-empty string in a
\* script element, or a label "Size: " followed by S, M, L or XL
CarriesSize(page) ==
    \/ KeyString(page, "size") # NoMatch
    \/ \E i \in DOMAIN page.text, size \in SizeLetters : MatchAtI(page.text, i, <<"S", "i", "z", "e", ":", " ">> \o size)

\* the document spells a material the clothes branch accepts: under a
\* "material" key, as a percentage composition or after a "Material" label
CarriesMaterial(page) == FirstAccepted(MaterialMatches(page), MaterialLengthOk) # 0

\* C21: for category "clothes" a document that carries a JSON-style size
\* key or a "Size: S/M/L/XL" label yields a populated size in the returned
\* record, and one that carries a material key, a percentage composition or
\* a "Material: ..." label yields a populated material.
C21_ClothesSizeAndMaterial ==
    (xpc = "returned" /\ category = "clothes" /\ ~IsBlocked(html)) =>
        /\ CarriesSize(html) => NonEmpty(data.size)
        /\ CarriesMaterial(html) => NonEmpty(data.material)


(***************************************************************************)
(* Properties of the search query                                          *)
(***************************************************************************)
\* the record of the example: brand "Acme", name "Acme Widget Pro", model
\* "AW-100", color "Black"
IsAcmeExample(d) ==
    /\ d.brand = Str(<<"A", "c", "m", "e">>) /\ d.name = Str(<<"A", "c", "m", "e", " ", "W", "i", "d", "g", "e", "t", " ", "P", "r", "o">>)
    /\ d.model = Str(<<"A", "W", "-", "1", "0", "0">>) /\ d.color = Str(<<"B", "l", "a", "c", "k">>)

\* C11 as stated: for the record with brand "Acme", name "Acme Widget Pro",
\* model "AW-100" and color "Black" the synthesized search_query is
\* "Widget Pro AW-100 Black".
C11_QueryExampleAsStated ==
    (xpc = "returned" /\ IsAcmeExample(data)) => data.search_query = Str(<<"W", "i", "d", "g", "e", "t", " ", "P", "r", "o", " ", "A", "W", "-", "1", "0", "0", " ", "B", "l", "a", "c", "k">>)

\* C11, amended: for that record the synthesized search_query is
\* "Acme Widget Pro AW-100 Black": the brand comes first, once, and is taken
\* out of the name.
C11_QueryExample ==
    (xpc = "returned" /\ IsAcmeExample(data)) => data.search_query = Str(<<"A", "c", "m", "e", " ", "W", "i", "d", "g", "e", "t", " ", "P", "r", "o", " ", "A", "W", "-", "1", "0", "0", " ", "B", "l", "a", "c", "k">>)

C11_Witness == xpc = "returned" /\ IsAcmeExample(data) /\ data.search_query # NoneV

\* the characters of a field, none when the field is unset
Part(v) == IF IsStr(v) THEN v.str ELSE <<>>

\* the name without a leading occurrence of the brand, whatever its case
LeadingBrandRemoved(name, brand) ==
    IF brand # <<>> /\ Len(brand) <= Len(name) /\ lower(SubSeq(name, 1, Len(brand))) = lower(brand)
    THEN SubSeq(name, Len(brand) + 1, Len(name))
    ELSE name

\* the parts that are not empty, a space between them
JoinParts(parts) == join(<<" ">>, SelectSeq(parts, LAMBDA p : p # <<>>))

\* the query the rule gives for a record: brand, name without its leading
\* brand and with single spaces, model unless the query holds it, color
\* unless the query holds it in whatever case
RuleQuery(d) ==
    LET brand == Part(d.brand)
        name == strip(SingleSpaces(LeadingBrandRemoved(Part(d.name), brand)))
        q1 == JoinParts(<<brand, name>>)
        q2 == IF Contains(q1, Part(d.model)) THEN q1 ELSE JoinParts(<<q1, Part(d.model)>>)
    IN  IF Contains(lower(q2), lower(Part(d.color))) THEN q2 ELSE JoinParts(<<q2, Part(d.color)>>)

\* C17: the search_query of a returned record is the space-joined
\* concatenation of brand, name with only a leading occurrence of brand
\* removed (case-insensitively) and whitespace normalized, model unless it
\* is a substring of the query so far, color unless it is a substring;
\* empty parts are skipped and search_query stays unset when all are empty.
C17_QueryRule ==
    xpc = "returned" =>
        data.search_query = (IF RuleQuery(data) = <<>> THEN NoneV ELSE Str(RuleQuery(data)))


(***************************************************************************)
(* Properties of extract_price                                             *)
(***************************************************************************)
\* C12: price-string parsing: extract_price("€1,234.56") and
\* extract_price("1.234,56") both return 1234.56.
C12_ThousandsSeparators ==
    (parsed # NotCalled /\ price_string \in {<<"EURO SIGN">> \o <<"1", ",", "2", "3", "4", ".", "5", "6">>, <<"1", ".", "2", "3", "4", ",", "5", "6">>})
        => parsed = Num(1234560)

\* the rule of the specification, step by step: whitespace stripped,
\* decimal commas turned into points, currency codes and symbols stripped
RuleSymbols == {"EURO SIGN", "$", "POUND SIGN", "YEN SIGN", "RUPEE SIGN"}

RuleCodes == {<<"E", "U", "R">>, <<"U", "S", "D">>, <<"G", "B", "P">>, <<"H", "U", "F">>, <<"F", "t">>}

RECURSIVE StripCodes(_)
StripCodes(s) ==
    IF s = <<>> THEN <<>>
    ELSE IF \E w \in RuleCodes : MatchAt(s, 1, w)
         THEN StripCodes(From(s, Len(CHOOSE w \in RuleCodes : MatchAt(s, 1, w))))
    ELSE <<s[1]>> \o StripCodes(Tail(s))

RuleCleaned(s) ==
    LET no_space == SelectSeq(s, LAMBDA c : c # " ")
        pointed == [i \in DOMAIN no_space |-> IF no_space[i] = "," THEN "." ELSE no_space[i]]
    IN  SelectSeq(StripCodes(pointed), LAMBDA c : c \notin RuleSymbols)

\* digits, then at most one point, then digits
IsNumericToken(x) ==
    \E k \in 1..Len(x) :
        /\ \A j \in 1..k : IsDigit(x[j])
        /\ k = Len(x) \/ (x[k + 1] = "." /\ \A j \in (k + 2)..Len(x) : IsDigit(x[j]))

HasDigit(s) == \E i \in DOMAIN s : IsDigit(s[i])

\* the longest numeric token that starts at the first digit
LeadingToken(t) ==
    LET i == CHOOSE d \in DOMAIN t : IsDigit(t[d]) /\ \A e \in 1..(d - 1) : ~IsDigit(t[e])
        ends == {e \in i..Len(t) : IsNumericToken(SubSeq(t, i, e))}
    IN  SubSeq(t, i, CHOOSE e \in ends : \A f \in ends : f <= e)

C22_EmittedPricePositive ==
    (quoted # NotCalled /\ quoted # NoneV) => (IsNum(quoted) /\ quoted.num > 0)

====
